---------------------------- MODULE Spec2Model ----------------------------
(***************************************************************************)
(* A model of pydantic_vcon/models.py: the entity constructors (Dialog,    *)
(* Analysis, ...), the container VCon with its add_* mutators, the         *)
(* whole-document validator is_valid and the to_json / build_from_json     *)
(* pair.                                                                   *)
(*                                                                         *)
(* Representation.                                                         *)
(*   - A Python Optional value is a tuple: None is <<>>, a value v is      *)
(*     <<v>>.  An empty list held by an Optional field is << <<>> >>.      *)
(*   - Keyword arguments / a decoded JSON object are a function from the   *)
(*     names that were supplied to their (Optional) values, so a field     *)
(*     that was not supplied differs from one supplied as None.            *)
(*   - A constructed entity is a record with every declared field.         *)
(*   - A timestamp is [tag, n, form]: a datetime for instant n, or a text  *)
(*     that is the isoformat() of n ("iso"), another parseable rendering   *)
(*     of n ("alt"), or unparseable ("bad").                               *)
(***************************************************************************)
EXTENDS Integers, Sequences, FiniteSets, TLC

VARIABLES vcon, call

vars == <<vcon, call>>

----------------------------------------------------------------------------
(* Bounds of the model *)

\* the largest number of add_* / add_tag calls made on one container
MaxOps == 2

\* the number of instants the clock (datetime.now()) can show
MaxTime == 2

\* the largest number of entries of a container built to check the
\* exclusive fields
MaxExclusiveOps == 1

\* the number of parties of the container a constructed dialog is added to
NumParties == 3

----------------------------------------------------------------------------
(* Optional values and keyword arguments *)

None == <<>>

Some(v) == <<v>>

\* dict.get(k): the value supplied for k, None when k was not supplied
Get(kw, k) == IF k \in DOMAIN kw THEN kw[k] ELSE None

\* one keyword argument: c is <<>> (not supplied) or <<x>> (supplied as x)
Arg(k, c) == IF c = <<>> THEN <<>> ELSE (k :> c[1])

\* the three ways to pass an Optional field with the value v
Choices(v) == {<<>>, <<None>>, <<Some(v)>>}

----------------------------------------------------------------------------
(* Timestamps: datetime.isoformat and datetime.fromisoformat *)

DateTime(n) == [tag |-> "datetime", n |-> n, form |-> ""]

Text(n, form) == [tag |-> "str", n |-> n, form |-> form]

isoformat(d) == Text(d.n, "iso")

\* fromisoformat raises ValueError on text it cannot parse
CanParse(t) == t.tag = "str" /\ t.form \in {"iso", "alt"}

fromisoformat(t) == DateTime(t.n)

Times == 1..MaxTime

----------------------------------------------------------------------------
(* Party indices of a Dialog: parties: Union[int, List[int],               *)
(* List[Union[int, List[int]]]].  PInt(n) is the integer n, PList(s) a     *)
(* list whose elements are PInt or (one level down) PList of PInt.         *)

PInt(n) == [form |-> "int", i |-> n, l |-> <<>>]

PList(s) == [form |-> "list", i |-> 0, l |-> s]

----------------------------------------------------------------------------
(* class Dialog *)

DialogTypes == {"recording", "text", "transfer", "incomplete"}

Dispositions == {"no-answer", "congestion", "failed", "busy", "hung-up",
                 "voicemail-no-message"}

TransferFields == <<"transferee", "transferor", "transfer_target", "original",
                    "consultation", "target_dialog">>

RequiredTransferFields == {"transferee", "transferor", "transfer_target",
                           "original", "target_dialog"}

MsgDisposition == "disposition required for incomplete dialogs"

MsgNoContent == "body or url should not be present for incomplete dialogs"

MsgNoDisposition == "disposition should not be present for non-incomplete dialogs"

MsgDialogContent == "Dialog must have either inline (body + encoding) or external (url + content_hash) content"

MsgRequired(f) == [msg |-> "required for transfer dialogs", field |-> f]

MsgNotTransfer(f) == [msg |-> "should not be present for non-transfer dialogs", field |-> f]

MsgMissing(f) == [msg |-> "Field required", field |-> f]

Msg(m) == [msg |-> m, field |-> ""]

\* a faulty validate_dialog_fields: the disposition check of an
\* incomplete dialog is left out
validate_dialog_fields_nodisp(values) ==
    LET dialog_type == Get(values, "type")
        has_inline == Get(values, "body") # None /\ Get(values, "encoding") # None
        has_external == Get(values, "url") # None /\ Get(values, "content_hash") # None
    IN  IF dialog_type = None THEN ""
        ELSE IF dialog_type = Some("incomplete")
        THEN IF Get(values, "body") # None \/ Get(values, "url") # None
             THEN MsgNoContent
             ELSE ""
        ELSE IF Get(values, "disposition") # None THEN MsgNoDisposition
        ELSE IF dialog_type \in {Some("recording"), Some("text")}
                /\ ~(has_inline \/ has_external)
        THEN MsgDialogContent
        ELSE ""

\* a faulty validate_dialog_fields: an incomplete dialog is checked for
\* a body only
validate_dialog_fields_bodyonly(values) ==
    LET dialog_type == Get(values, "type")
        has_inline == Get(values, "body") # None /\ Get(values, "encoding") # None
        has_external == Get(values, "url") # None /\ Get(values, "content_hash") # None
    IN  IF dialog_type = None THEN ""
        ELSE IF dialog_type = Some("incomplete")
        THEN IF Get(values, "disposition") = None THEN MsgDisposition
             ELSE IF Get(values, "body") # None
             THEN MsgNoContent
             ELSE ""
        ELSE IF Get(values, "disposition") # None THEN MsgNoDisposition
        ELSE IF dialog_type \in {Some("recording"), Some("text")}
                /\ ~(has_inline \/ has_external)
        THEN MsgDialogContent
        ELSE ""

\* a faulty validate_dialog_fields: a body counts as inline content
\* without an encoding
validate_dialog_fields_noenc(values) ==
    LET dialog_type == Get(values, "type")
        has_inline == Get(values, "body") # None
        has_external == Get(values, "url") # None /\ Get(values, "content_hash") # None
    IN  IF dialog_type = None THEN ""
        ELSE IF dialog_type = Some("incomplete")
        THEN IF Get(values, "disposition") = None THEN MsgDisposition
             ELSE IF Get(values, "body") # None \/ Get(values, "url") # None
             THEN MsgNoContent
             ELSE ""
        ELSE IF Get(values, "disposition") # None THEN MsgNoDisposition
        ELSE IF dialog_type \in {Some("recording"), Some("text")}
                /\ ~(has_inline \/ has_external)
        THEN MsgDialogContent
        ELSE ""

\* @model_validator(mode='before'): the message of the ValueError it raises
\* on the raw keyword arguments, "" when it returns them
validate_dialog_fields(values) ==
    LET dialog_type == Get(values, "type")
        has_inline == Get(values, "body") # None /\ Get(values, "encoding") # None
        has_external == Get(values, "url") # None /\ Get(values, "content_hash") # None
    IN  IF dialog_type = None THEN ""
        ELSE IF dialog_type = Some("incomplete")
        THEN IF Get(values, "disposition") = None THEN MsgDisposition
             ELSE IF Get(values, "body") # None \/ Get(values, "url") # None
             THEN MsgNoContent
             ELSE ""
        ELSE IF Get(values, "disposition") # None THEN MsgNoDisposition
        ELSE IF dialog_type \in {Some("recording"), Some("text")}
                /\ ~(has_inline \/ has_external)
        THEN MsgDialogContent
        ELSE ""

\* @field_validator on the six transfer fields: the errors raised for the
\* field field_name with value v, given the validated type (info.data)
validate_transfer_fields(field_name, v, type) ==
    IF type = Some("transfer") /\ v = None /\ field_name \in RequiredTransferFields
    THEN <<MsgRequired(field_name)>>
    ELSE IF type # Some("transfer") /\ v # None
    THEN <<MsgNotTransfer(field_name)>>
    ELSE <<>>

\* pydantic runs a field validator on the fields present in the input only:
\* a field left to its default is not validated (validate_default is unset)
RECURSIVE TransferErrors(_, _, _)
TransferErrors(kw, type, k) ==
    IF k > Len(TransferFields) THEN <<>>
    ELSE LET f == TransferFields[k]
         IN  (IF f \in DOMAIN kw
              THEN validate_transfer_fields(f, kw[f], type)
              ELSE <<>>)
             \o TransferErrors(kw, type, k + 1)

\* a required field (no default) that was not supplied, or supplied as None
MissingError(kw, f) ==
    IF Get(kw, f) = None THEN <<MsgMissing(f)>> ELSE <<>>

DialogObject(kw) ==
    [type |-> Get(kw, "type"), start |-> Get(kw, "start"),
     parties |-> Get(kw, "parties"), mediatype |-> Get(kw, "mediatype"),
     body |-> Get(kw, "body"), encoding |-> Get(kw, "encoding"),
     url |-> Get(kw, "url"), content_hash |-> Get(kw, "content_hash"),
     disposition |-> Get(kw, "disposition"),
     party_history |-> Get(kw, "party_history"),
     transferee |-> Get(kw, "transferee"), transferor |-> Get(kw, "transferor"),
     transfer_target |-> Get(kw, "transfer_target"),
     original |-> Get(kw, "original"), consultation |-> Get(kw, "consultation"),
     target_dialog |-> Get(kw, "target_dialog")]

\* Dialog(kw): [ok, errs, obj].  The before-validator raises first; then
\* the fields are validated in declaration order and every error is kept.
Dialog(kw) ==
    LET before == validate_dialog_fields(kw)
        type == Get(kw, "type")
        errs == MissingError(kw, "type") \o MissingError(kw, "start")
                \o MissingError(kw, "parties") \o TransferErrors(kw, type, 1)
    IN  IF before # "" THEN [ok |-> FALSE, errs |-> <<Msg(before)>>, obj |-> None]
        ELSE IF errs # <<>> THEN [ok |-> FALSE, errs |-> errs, obj |-> None]
        ELSE [ok |-> TRUE, errs |-> <<>>, obj |-> Some(DialogObject(kw))]

----------------------------------------------------------------------------
(* class Analysis.  A body (Any) is [kind, text, map]: a str, a dict (a     *)
(* function from names to texts) or a list.                                *)

StrBody(t) == [kind |-> "str", text |-> t, map |-> <<>>]

DictBody(m) == [kind |-> "dict", text |-> "", map |-> m]

ListBody == [kind |-> "list", text |-> "", map |-> <<>>]

Encodings == {"base64url", "json", "none"}

MsgAnalysisContent == "Analysis must have either inline (body) or external (url + content_hash) content"

MsgJsonBody == "JSON body must be a dict or list"

AnalysisObject(kw) ==
    [type |-> Get(kw, "type"), dialog |-> Get(kw, "dialog"),
     mediatype |-> Get(kw, "mediatype"), vendor |-> Get(kw, "vendor"),
     body |-> Get(kw, "body"), encoding |-> Get(kw, "encoding"),
     url |-> Get(kw, "url"), content_hash |-> Get(kw, "content_hash")]

\* a faulty validate_analysis_content: a url counts as external content
\* without a content_hash
validate_analysis_content_nohash(self) ==
    LET has_inline == self.body # None
        has_external == self.url # None
    IN  IF ~(has_inline \/ has_external) THEN MsgAnalysisContent
        ELSE IF self.encoding = Some("json") /\ has_inline
                /\ self.body[1].kind \notin {"dict", "list"}
        THEN MsgJsonBody
        ELSE ""

\* a faulty validate_analysis_content: the body of a json analysis is not
\* looked at
validate_analysis_content_anybody(self) ==
    LET has_inline == self.body # None
        has_external == self.url # None /\ self.content_hash # None
    IN  IF ~(has_inline \/ has_external) THEN MsgAnalysisContent ELSE ""

\* @model_validator(mode='after'): the message of the ValueError it raises
\* on the validated instance, "" when it returns it
validate_analysis_content(self) ==
    LET has_inline == self.body # None
        has_external == self.url # None /\ self.content_hash # None
    IN  IF ~(has_inline \/ has_external) THEN MsgAnalysisContent
        ELSE IF self.encoding = Some("json") /\ has_inline
                /\ self.body[1].kind \notin {"dict", "list"}
        THEN MsgJsonBody
        ELSE ""

\* Analysis(kw): type, vendor and encoding are declared without a default;
\* the after-validator runs once every field has validated
Analysis(kw) ==
    LET errs == MissingError(kw, "type") \o MissingError(kw, "vendor")
                \o MissingError(kw, "encoding")
        after == validate_analysis_content(AnalysisObject(kw))
    IN  IF errs # <<>> THEN [ok |-> FALSE, errs |-> errs, obj |-> None]
        ELSE IF after # "" THEN [ok |-> FALSE, errs |-> <<Msg(after)>>, obj |-> None]
        ELSE [ok |-> TRUE, errs |-> <<>>, obj |-> Some(AnalysisObject(kw))]

----------------------------------------------------------------------------
(* class Attachment, class Party, class CivicAddress *)

MsgAttachmentContent == "Attachment must have either inline (body + encoding) or external (url + content_hash) content"

AttachmentObject(kw) ==
    [type |-> Get(kw, "type"), start |-> Get(kw, "start"),
     party |-> Get(kw, "party"), dialog |-> Get(kw, "dialog"),
     body |-> Get(kw, "body"), encoding |-> Get(kw, "encoding"),
     url |-> Get(kw, "url"), content_hash |-> Get(kw, "content_hash")]

\* a faulty validate_attachment_content: a body counts as inline content
\* without an encoding
validate_attachment_content_noenc(self) ==
    LET has_inline == self.body # None
        has_external == self.url # None /\ self.content_hash # None
    IN  IF ~(has_inline \/ has_external) THEN MsgAttachmentContent ELSE ""

validate_attachment_content(self) ==
    LET has_inline == self.body # None /\ self.encoding # None
        has_external == self.url # None /\ self.content_hash # None
    IN  IF ~(has_inline \/ has_external) THEN MsgAttachmentContent ELSE ""

Attachment(kw) ==
    LET errs == MissingError(kw, "type")
        after == validate_attachment_content(AttachmentObject(kw))
    IN  IF errs # <<>> THEN [ok |-> FALSE, errs |-> errs, obj |-> None]
        ELSE IF after # "" THEN [ok |-> FALSE, errs |-> <<Msg(after)>>, obj |-> None]
        ELSE [ok |-> TRUE, errs |-> <<>>, obj |-> Some(AttachmentObject(kw))]

CivicAddress(kw) ==
    [country |-> Get(kw, "country"), a1 |-> Get(kw, "a1"), pc |-> Get(kw, "pc")]

\* every field of a Party is optional and there is no validator
Party(kw) ==
    [tel |-> Get(kw, "tel"), name |-> Get(kw, "name"), role |-> Get(kw, "role"),
     civicaddress |-> Get(kw, "civicaddress")]

----------------------------------------------------------------------------
(* class GroupItem, class Redacted, class Appended *)

MsgGroupItemContent == "GroupItem must have either uuid, inline (body + encoding), or external (url + content_hash) content"

MsgAppendedContent == "Appended must have either uuid, inline (body + encoding), or external (url + content_hash) content"

RefObject(kw) ==
    [uuid |-> Get(kw, "uuid"), body |-> Get(kw, "body"),
     encoding |-> Get(kw, "encoding"), url |-> Get(kw, "url"),
     content_hash |-> Get(kw, "content_hash")]

\* validate_group_item_content and validate_appended_content: the same test
HasReference(self) ==
    LET has_uuid == self.uuid # None
        has_inline == self.body # None /\ self.encoding # None
        has_external == self.url # None /\ self.content_hash # None
    IN  has_uuid \/ has_inline \/ has_external

GroupItem(kw) ==
    IF ~HasReference(RefObject(kw))
    THEN [ok |-> FALSE, errs |-> <<Msg(MsgGroupItemContent)>>, obj |-> None]
    ELSE [ok |-> TRUE, errs |-> <<>>, obj |-> Some(RefObject(kw))]

Appended(kw) ==
    IF ~HasReference(RefObject(kw))
    THEN [ok |-> FALSE, errs |-> <<Msg(MsgAppendedContent)>>, obj |-> None]
    ELSE [ok |-> TRUE, errs |-> <<>>, obj |-> Some(RefObject(kw))]

\* Redacted declares uuid: str without a default and has no validator
Redacted(kw) ==
    LET errs == MissingError(kw, "uuid")
    IN  IF errs # <<>> THEN [ok |-> FALSE, errs |-> errs, obj |-> None]
        ELSE [ok |-> TRUE, errs |-> <<>>, obj |-> Some(RefObject(kw))]

----------------------------------------------------------------------------
(* class VCon: construction *)

V_0_0_2 == "0.0.2"

MsgDates == "Dates must be valid ISO 8601 format"

MsgExclusive == "Only one of redacted, appended, or group can be provided"

\* the value of field k: the one supplied, or the declared default
GetD(kw, k, default) == IF k \in DOMAIN kw THEN kw[k] ELSE default

\* @field_validator('created_at', 'updated_at'): the error for the supplied
\* value v
DateError(v) ==
    IF v # None /\ v[1].tag = "str" /\ ~CanParse(v[1]) THEN <<Msg(MsgDates)>> ELSE <<>>

\* ... and the value the validator returns for it
validate_date_format(v) ==
    IF v # None /\ v[1].tag = "str" THEN Some(fromisoformat(v[1])) ELSE v

VConObject(kw) ==
    [vcon |-> GetD(kw, "vcon", Some(V_0_0_2)), uuid |-> Get(kw, "uuid"),
     created_at |-> validate_date_format(Get(kw, "created_at")),
     updated_at |-> validate_date_format(Get(kw, "updated_at")),
     subject |-> Get(kw, "subject"),
     redacted |-> Get(kw, "redacted"), appended |-> Get(kw, "appended"),
     group |-> Get(kw, "group"),
     parties |-> GetD(kw, "parties", Some(<<>>)),
     dialog |-> GetD(kw, "dialog", Some(<<>>)),
     analysis |-> GetD(kw, "analysis", Some(<<>>)),
     attachments |-> GetD(kw, "attachments", Some(<<>>))]

\* a faulty ExclusiveCount: the group is not counted
ExclusiveCount_nogroup(self) ==
    (IF self.redacted # None THEN 1 ELSE 0)
    + (IF self.appended # None THEN 1 ELSE 0)

\* count of validate_mutually_exclusive_fields
ExclusiveCount(self) ==
    (IF self.redacted # None THEN 1 ELSE 0)
    + (IF self.appended # None THEN 1 ELSE 0)
    + (IF self.group # None /\ Len(self.group[1]) > 0 THEN 1 ELSE 0)

\* @model_validator(mode='after')
validate_mutually_exclusive_fields(self) ==
    IF ExclusiveCount(self) > 1 THEN MsgExclusive ELSE ""

\* VCon(kw), the nested entities of kw being constructed instances
VCon(kw) ==
    LET errs == MissingError(kw, "uuid") \o MissingError(kw, "created_at")
                \o DateError(Get(kw, "created_at"))
                \o DateError(Get(kw, "updated_at"))
                \o (IF GetD(kw, "parties", Some(<<>>)) = None
                    THEN <<MsgMissing("parties")>> ELSE <<>>)
        after == validate_mutually_exclusive_fields(VConObject(kw))
    IN  IF errs # <<>> THEN [ok |-> FALSE, errs |-> errs, obj |-> None]
        ELSE IF after # "" THEN [ok |-> FALSE, errs |-> <<Msg(after)>>, obj |-> None]
        ELSE [ok |-> TRUE, errs |-> <<>>, obj |-> Some(VConObject(kw))]

\* a faulty build_new: dialog is passed as None
build_new_nodialog(u, t) ==
    VCon(("uuid" :> Some(u)) @@ ("vcon" :> Some(V_0_0_2))
         @@ ("created_at" :> Some(isoformat(DateTime(t))))
         @@ ("parties" :> Some(<<>>)) @@ ("dialog" :> None)
         @@ ("analysis" :> Some(<<>>)) @@ ("attachments" :> Some(<<>>)))

\* build_new, for the identifier u that uuid4 returns and the instant t that
\* datetime.now() shows
build_new(u, t) ==
    VCon(("uuid" :> Some(u)) @@ ("vcon" :> Some(V_0_0_2))
         @@ ("created_at" :> Some(isoformat(DateTime(t))))
         @@ ("parties" :> Some(<<>>)) @@ ("dialog" :> Some(<<>>))
         @@ ("analysis" :> Some(<<>>)) @@ ("attachments" :> Some(<<>>)))

----------------------------------------------------------------------------
(* class VCon: the mutators *)

\* the list held by an Optional field, empty when the field is None
ListOf(o) == IF o = None THEN <<>> ELSE o[1]

add_party(self, party) ==
    [self EXCEPT !.parties = Some(Append(self.parties[1], party))]

\* a faulty add_dialog: the dialog is put in front
add_dialog_front(self, dialog) ==
    [self EXCEPT !.dialog = Some(<<dialog>> \o ListOf(self.dialog))]

add_dialog(self, dialog) ==
    [self EXCEPT !.dialog = Some(Append(ListOf(self.dialog), dialog))]

add_analysis(self, analysis) ==
    [self EXCEPT !.analysis = Some(Append(ListOf(self.analysis), analysis))]

add_attachment(self, attachment) ==
    [self EXCEPT !.attachments = Some(Append(ListOf(self.attachments), attachment))]

\* for i, party in enumerate(self.parties), from position k: the index of
\* the first party whose dumped field by equals val
RECURSIVE PartyScan(_, _, _, _)
PartyScan(parties, k, by, val) ==
    IF k > Len(parties) THEN None
    ELSE IF by \in DOMAIN parties[k] /\ parties[k][by] = val THEN Some(k - 1)
    ELSE PartyScan(parties, k + 1, by, val)

find_party_index(self, by, val) == PartyScan(self.parties[1], 1, by, val)

\* for dialog_item in self.dialog, from position k
RECURSIVE DialogScan(_, _, _, _)
DialogScan(dialogs, k, by, val) ==
    IF k > Len(dialogs) THEN None
    ELSE IF by \in DOMAIN dialogs[k] /\ dialogs[k][by] = val THEN Some(dialogs[k])
    ELSE DialogScan(dialogs, k + 1, by, val)

find_dialog(self, by, val) ==
    IF self.dialog = None THEN None ELSE DialogScan(self.dialog[1], 1, by, val)

\* for analysis_item in self.analysis, from position k
RECURSIVE AnalysisScan(_, _, _)
AnalysisScan(analyses, k, type) ==
    IF k > Len(analyses) THEN None
    ELSE IF analyses[k].type = Some(type) THEN Some(analyses[k])
    ELSE AnalysisScan(analyses, k + 1, type)

\* a faulty find_analysis_by_type: the scan runs from the end
find_analysis_by_type_last(self, type) ==
    LET s == ListOf(self.analysis)
        hits == {k \in 1..Len(s) : s[k].type = Some(type)}
    IN  IF hits = {} THEN None ELSE Some(s[CHOOSE k \in hits : \A j \in hits : j <= k])

find_analysis_by_type(self, type) ==
    IF self.analysis = None THEN None ELSE AnalysisScan(self.analysis[1], 1, type)

\* the position (from 1) of the first attachment of the type, 0 when there
\* is none or the sequence is None
AttachmentIndex(self, type) ==
    LET s == ListOf(self.attachments)
        hits == {k \in 1..Len(s) : s[k].type = Some(type)}
    IN  IF hits = {} THEN 0 ELSE CHOOSE k \in hits : \A j \in hits : k <= j

find_attachment_by_type(self, type) ==
    LET k == AttachmentIndex(self, type)
    IN  IF k = 0 THEN None ELSE Some(self.attachments[1][k])

\* dict[tag_name] = tag_value
DictSet(m, tag_name, tag_value) ==
    [k \in DOMAIN m \cup {tag_name} |-> IF k = tag_name THEN tag_value ELSE m[k]]

\* a faulty add_tag: a new attachment is created at every call
add_tag_always(self, tag_name, tag_value, now) ==
    LET created == Attachment(("type" :> Some("tags"))
                              @@ ("body" :> Some(DictBody(tag_name :> tag_value)))
                              @@ ("encoding" :> Some("json"))).obj[1]
    IN  [add_attachment(self, created) EXCEPT !.updated_at = Some(DateTime(now))]

\* add_tag at the instant now: the tags attachment is created when none is
\* found, its body is updated in place, updated_at is set
add_tag(self, tag_name, tag_value, now) ==
    LET found == AttachmentIndex(self, "tags")
        created == Attachment(("type" :> Some("tags"))
                              @@ ("body" :> Some(DictBody(<<>>)))
                              @@ ("encoding" :> Some("json"))).obj[1]
        withTags == IF found = 0 THEN add_attachment(self, created) ELSE self
        k == AttachmentIndex(withTags, "tags")
        body == withTags.attachments[1][k].body
        newBody == IF body # None /\ body[1].kind = "dict"
                   THEN DictBody(DictSet(body[1].map, tag_name, tag_value))
                   ELSE DictBody(DictSet(<<>>, tag_name, tag_value))
    IN  [withTags EXCEPT !.attachments[1][k].body = Some(newBody),
                         !.updated_at = Some(DateTime(now))]

\* a faulty get_tag: the last attachment of type "tags" is read
get_tag_last(self, tag_name) ==
    LET s == ListOf(self.attachments)
        hits == {k \in 1..Len(s) : s[k].type = Some("tags")}
        last == CHOOSE k \in hits : \A j \in hits : j <= k
    IN  IF hits = {} \/ s[last].body = None \/ s[last].body[1].kind # "dict"
        THEN None
        ELSE Get([k \in DOMAIN s[last].body[1].map |-> Some(s[last].body[1].map[k])],
                 tag_name)

get_tag(self, tag_name) ==
    LET tags_attachment == find_attachment_by_type(self, "tags")
    IN  IF tags_attachment = None
           \/ tags_attachment[1].body = None
           \/ tags_attachment[1].body[1].kind # "dict"
        THEN None
        ELSE Get([k \in DOMAIN tags_attachment[1].body[1].map |->
                     Some(tags_attachment[1].body[1].map[k])], tag_name)

----------------------------------------------------------------------------
(* class VCon: is_valid *)

MsgMissingField(f) == [msg |-> "Missing required field", field |-> f, at |-> 0, index |-> 0]

MsgCreatedAt == [msg |-> "Invalid created_at format. Must be ISO 8601 datetime string",
                 field |-> "created_at", at |-> 0, index |-> 0]

MsgPartiesList == [msg |-> "parties must be a list", field |-> "parties", at |-> 0, index |-> 0]

\* f"Dialog at index {i} references invalid party index: {idx}"
MsgPartyIndex(i, idx) ==
    [msg |-> "Dialog references invalid party index", field |-> "parties",
     at |-> i, index |-> idx]

\* f"Analysis at index {i} references invalid dialog index: {dialog_idx}"
MsgDialogIndex(i, idx) ==
    [msg |-> "Analysis references invalid dialog index", field |-> "dialog",
     at |-> i, index |-> idx]

\* the required-field loop
RequiredFieldErrors(self) ==
    (IF self.uuid = None THEN <<MsgMissingField("uuid")>> ELSE <<>>)
    \o (IF self.vcon = None THEN <<MsgMissingField("vcon")>> ELSE <<>>)
    \o (IF self.created_at = None THEN <<MsgMissingField("created_at")>> ELSE <<>>)

\* isinstance(self.created_at, (datetime, str)) and isinstance(self.parties, list)
TypeErrors(self) ==
    (IF self.created_at = None THEN <<MsgCreatedAt>> ELSE <<>>)
    \o (IF self.parties = None THEN <<MsgPartiesList>> ELSE <<>>)

\* a faulty OutOfRange: the upper end of the range is not checked
OutOfRange_noupper(idx, count) == idx < 0

\* a faulty OutOfRange: the comparison with the count is turned round
OutOfRange_inverted(idx, count) == idx < 0 \/ idx < count

\* idx < 0 or idx >= count
OutOfRange(idx, count) == idx < 0 \/ idx >= count

\* for idx in party_indices: an element that is not an int (a nested list)
\* is passed over
RECURSIVE PartyListErrors(_, _, _, _)
PartyListErrors(l, k, i, party_count) ==
    IF k > Len(l) THEN <<>>
    ELSE (IF l[k].form = "int" /\ OutOfRange(l[k].i, party_count)
          THEN <<MsgPartyIndex(i, l[k].i)>> ELSE <<>>)
         \o PartyListErrors(l, k + 1, i, party_count)

\* the party check of the dialog at index i (from 0)
DialogErrors(dialog, i, party_count) ==
    LET party_indices == dialog.parties[1]
    IN  IF party_indices.form = "int"
        THEN IF OutOfRange(party_indices.i, party_count)
             THEN <<MsgPartyIndex(i, party_indices.i)>> ELSE <<>>
        ELSE PartyListErrors(party_indices.l, 1, i, party_count)

RECURSIVE AllDialogErrors(_, _, _)
AllDialogErrors(dialogs, k, party_count) ==
    IF k > Len(dialogs) THEN <<>>
    ELSE DialogErrors(dialogs[k], k - 1, party_count)
         \o AllDialogErrors(dialogs, k + 1, party_count)

\* for dialog_idx in analysis.dialog
RECURSIVE DialogListErrors(_, _, _, _)
DialogListErrors(l, k, i, dialog_count) ==
    IF k > Len(l) THEN <<>>
    ELSE (IF l[k].form # "int" \/ OutOfRange(l[k].i, dialog_count)
          THEN <<MsgDialogIndex(i, l[k].i)>> ELSE <<>>)
         \o DialogListErrors(l, k + 1, i, dialog_count)

\* the dialog check of the analysis at index i (from 0)
AnalysisErrors(analysis, i, dialog_count) ==
    IF analysis.dialog = None THEN <<>>
    ELSE IF analysis.dialog[1].form = "int"
    THEN IF OutOfRange(analysis.dialog[1].i, dialog_count)
         THEN <<MsgDialogIndex(i, analysis.dialog[1].i)>> ELSE <<>>
    ELSE DialogListErrors(analysis.dialog[1].l, 1, i, dialog_count)

RECURSIVE AllAnalysisErrors(_, _, _)
AllAnalysisErrors(analyses, k, dialog_count) ==
    IF k > Len(analyses) THEN <<>>
    ELSE AnalysisErrors(analyses[k], k - 1, dialog_count)
         \o AllAnalysisErrors(analyses, k + 1, dialog_count)

\* the list errors that is_valid builds
Errors(self) ==
    RequiredFieldErrors(self) \o TypeErrors(self)
    \o AllDialogErrors(ListOf(self.dialog), 1, Len(ListOf(self.parties)))
    \o AllAnalysisErrors(ListOf(self.analysis), 1, Len(ListOf(self.dialog)))

\* a faulty ErrorsOk: a single error still counts as valid
ErrorsOk_one(errors) == Len(errors) <= 1

\* len(errors) == 0
ErrorsOk(errors) == Len(errors) = 0

\* is_valid(): the tuple it returns
is_valid(self) == [ok |-> ErrorsOk(Errors(self)), errors |-> Errors(self)]

----------------------------------------------------------------------------
(* class VCon: to_json.  model_dump(exclude_none=True) leaves out, at every *)
(* level, the fields whose value is None; json.dumps writes a datetime as   *)
(* its isoformat() (datetime_handler).  The encoded document is the tree    *)
(* json.loads gives back: a function from the names written to the values.  *)

\* a timestamp as json.dumps writes it
JsonTime(t) == IF t.tag = "datetime" THEN isoformat(t) ELSE t

\* a model's fields that are not None, each value written by Conv
Dump(self, Conv(_, _)) ==
    [k \in {f \in DOMAIN self : self[f] # None} |-> Some(Conv(k, self[k][1]))]

Same(k, v) == v

MapSeq(s, F(_)) == [k \in 1..Len(s) |-> F(s[k])]

DumpTimes(k, v) == IF k \in {"start", "time"} THEN JsonTime(v) ELSE v

DumpPartyHistory(self) == Dump(self, DumpTimes)

DumpDialogField(k, v) ==
    IF k = "start" THEN JsonTime(v)
    ELSE IF k = "party_history" THEN MapSeq(v, DumpPartyHistory)
    ELSE v

DumpDialog(self) == Dump(self, DumpDialogField)

DumpAnalysis(self) == Dump(self, Same)

DumpAttachment(self) == Dump(self, DumpTimes)

DumpCivicAddress(self) == Dump(self, Same)

DumpPartyField(k, v) == IF k = "civicaddress" THEN DumpCivicAddress(v) ELSE v

DumpParty(self) == Dump(self, DumpPartyField)

DumpRef(self) == Dump(self, Same)

DumpVConField(k, v) ==
    CASE k \in {"created_at", "updated_at"} -> JsonTime(v)
      [] k = "parties" -> MapSeq(v, DumpParty)
      [] k = "dialog" -> MapSeq(v, DumpDialog)
      [] k = "analysis" -> MapSeq(v, DumpAnalysis)
      [] k = "attachments" -> MapSeq(v, DumpAttachment)
      [] k \in {"redacted", "appended"} -> DumpRef(v)
      [] k = "group" -> MapSeq(v, DumpRef)
      [] OTHER -> v

\* to_json(), read back by json.loads
to_json(self) == Dump(self, DumpVConField)

----------------------------------------------------------------------------
(* class VCon: build_from_json.  The constructor validates every nested     *)
(* dict with the constructor of its class.                                 *)

RECURSIVE ConcatErrs(_, _)
ConcatErrs(results, k) ==
    IF k > Len(results) THEN <<>>
    ELSE results[k].errs \o ConcatErrs(results, k + 1)

\* a list of nested dicts validated by Ctor: [errs, objs]
ValidateList(o, Ctor(_)) ==
    LET results == MapSeq(ListOf(o), Ctor)
    IN  [errs |-> ConcatErrs(results, 1),
         objs |-> IF o = None THEN None
                  ELSE Some([k \in 1..Len(results) |->
                               IF results[k].ok THEN results[k].obj[1] ELSE None])]

\* one nested dict validated by Ctor
ValidateOne(o, Ctor(_)) ==
    IF o = None THEN [errs |-> <<>>, objs |-> None]
    ELSE [errs |-> Ctor(o[1]).errs, objs |-> Ctor(o[1]).obj]

\* the fields of kw, those named in repl replaced
Replace(kw, repl) ==
    [k \in DOMAIN kw |-> IF k \in DOMAIN repl THEN repl[k] ELSE kw[k]]

\* time: Union[datetime, str] keeps a text as the text it is
PartyHistoryFromJson(d) ==
    [ok |-> TRUE, errs |-> <<>>,
     obj |-> Some([party |-> Get(d, "party"), event |-> Get(d, "event"),
                   time |-> Get(d, "time")])]

\* start: Union[datetime, str] keeps a text as the text it is
DialogFromJson(d) ==
    LET history == ValidateList(Get(d, "party_history"), PartyHistoryFromJson)
    IN  Dialog(Replace(d, "party_history" :> history.objs))

AnalysisFromJson(d) == Analysis(d)

\* start: Optional[datetime] parses a text into a datetime
AttachmentFromJson(d) ==
    LET start == Get(d, "start")
    IN  IF start # None /\ start[1].tag = "str" /\ ~CanParse(start[1])
        THEN [ok |-> FALSE, errs |-> <<Msg("Input should be a valid datetime")>>,
              obj |-> None]
        ELSE Attachment(Replace(d, "start" :> validate_date_format(start)))

CivicAddressFromJson(d) ==
    [ok |-> TRUE, errs |-> <<>>, obj |-> Some(CivicAddress(d))]

PartyFromJson(d) ==
    LET address == ValidateOne(Get(d, "civicaddress"), CivicAddressFromJson)
    IN  [ok |-> TRUE, errs |-> <<>>,
         obj |-> Some(Party(Replace(d, "civicaddress" :> address.objs)))]

\* a faulty build_from_json: the nested dicts are taken as they are
build_from_json_unchecked(doc) == VCon(doc)

\* build_from_json(json_string), json_string holding the tree doc.  One
\* ValidationError carries the errors of all fields, in declaration order:
\* uuid, created_at, updated_at, then the nested entities
build_from_json(doc) ==
    LET parties == ValidateList(Get(doc, "parties"), PartyFromJson)
        dialog == ValidateList(Get(doc, "dialog"), DialogFromJson)
        analysis == ValidateList(Get(doc, "analysis"), AnalysisFromJson)
        attachments == ValidateList(Get(doc, "attachments"), AttachmentFromJson)
        redacted == ValidateOne(Get(doc, "redacted"), Redacted)
        appended == ValidateOne(Get(doc, "appended"), Appended)
        group == ValidateList(Get(doc, "group"), GroupItem)
        nested == redacted.errs \o appended.errs \o group.errs \o parties.errs
                  \o dialog.errs \o analysis.errs \o attachments.errs
        kw == Replace(doc, ("parties" :> parties.objs) @@ ("dialog" :> dialog.objs)
                           @@ ("analysis" :> analysis.objs)
                           @@ ("attachments" :> attachments.objs)
                           @@ ("redacted" :> redacted.objs)
                           @@ ("appended" :> appended.objs)
                           @@ ("group" :> group.objs))
        top == MissingError(doc, "uuid") \o MissingError(doc, "created_at")
               \o DateError(Get(doc, "created_at"))
               \o DateError(Get(doc, "updated_at"))
    IN  IF nested # <<>> THEN [ok |-> FALSE, errs |-> top \o nested, obj |-> None]
        ELSE VCon(kw)

----------------------------------------------------------------------------
(* The inputs of the container's life: the keyword arguments the calls are *)
(* made with.                                                              *)

TextDialogKw(start, parties) ==
    ("type" :> Some("text")) @@ ("start" :> Some(start))
    @@ ("parties" :> Some(parties)) @@ ("body" :> Some("Hello, world!"))
    @@ ("encoding" :> Some("json"))

TransferDialogKw(start, parties) ==
    ("type" :> Some("transfer")) @@ ("start" :> Some(start))
    @@ ("parties" :> Some(parties)) @@ ("transferee" :> Some(0))
    @@ ("transferor" :> Some(1)) @@ ("transfer_target" :> Some(2))
    @@ ("original" :> Some(0)) @@ ("target_dialog" :> Some(1))

IncompleteDialogKw(start, parties) ==
    ("type" :> Some("incomplete")) @@ ("start" :> Some(start))
    @@ ("parties" :> Some(parties)) @@ ("disposition" :> Some("no-answer"))

\* the dialogs added to a container
DialogKws ==
    { TextDialogKw(DateTime(1), PInt(0)),
      TransferDialogKw(Text(1, "iso"),
                       PList(<<PInt(1), PInt(999), PList(<<PInt(0), PInt(999)>>)>>)),
      IncompleteDialogKw(Text(1, "alt"), PInt(999)) }

AnalysisKw(dialog) ==
    ("type" :> Some("sentiment")) @@ ("vendor" :> Some("test"))
    @@ ("body" :> Some(DictBody("score" :> "0.8"))) @@ ("encoding" :> Some("json"))
    @@ Arg("dialog", dialog)

\* the analyses added to a container
AnalysisKws ==
    { AnalysisKw(<<Some(PInt(0))>>),
      AnalysisKw(<<Some(PList(<<PInt(0), PInt(999)>>))>>),
      ("type" :> Some("transcription")) @@ ("vendor" :> Some("test"))
      @@ ("url" :> Some("https://example.com/transcript.json"))
      @@ ("content_hash" :> Some("sha256:def456")) @@ ("encoding" :> Some("json")) }

\* the attachments added to a container
AttachmentKws ==
    { ("type" :> Some("transcript")) @@ ("body" :> Some(StrBody("This is a transcript")))
      @@ ("encoding" :> Some("none")) @@ ("start" :> Some(DateTime(1))),
      ("type" :> Some("tags")) @@ ("body" :> Some(StrBody("a,b")))
      @@ ("encoding" :> Some("none")) }

\* the parties added to a container
PartyKws ==
    { ("tel" :> Some("+1234567890")) @@ ("name" :> Some("John")),
      ("name" :> Some("Jane"))
      @@ ("civicaddress" :> Some(CivicAddress("country" :> Some("US")))) }

TagNames == {"category", "priority"}

TagValues == {"support", "high"}

RedactedObj == Redacted("uuid" :> Some("u0")).obj[1]

AppendedObj == Appended("uuid" :> Some("u0")).obj[1]

GroupItemObj == GroupItem("uuid" :> Some("u0")).obj[1]

\* the keyword arguments containers are constructed with: the three
\* sequences passed as None, and a redacted reference beside an empty group
VConKws ==
    { ("uuid" :> Some("u1")) @@ ("created_at" :> Some(DateTime(1)))
      @@ ("dialog" :> None) @@ ("analysis" :> None) @@ ("attachments" :> None),
      ("uuid" :> Some("u1")) @@ ("created_at" :> Some(Text(1, "alt")))
      @@ ("redacted" :> Some(RedactedObj)) @@ ("group" :> Some(<<>>)) }

\* ... and with every combination of redacted, appended and group
ExclusiveKws ==
    { ("uuid" :> Some("u1")) @@ ("created_at" :> Some(Text(1, "alt")))
      @@ Arg("redacted", redacted) @@ Arg("appended", appended)
      @@ Arg("group", group) :
        redacted \in {<<>>, <<Some(RedactedObj)>>},
        appended \in {<<>>, <<Some(AppendedObj)>>},
        group \in {<<>>, <<None>>, <<Some(<<>>)>>, <<Some(<<GroupItemObj>>)>>} }

----------------------------------------------------------------------------
(* The life of a container.  vcon is the container the program holds: None *)
(* when its construction raised.  call is the last call made: its name,    *)
(* its arguments and what it returned or raised.                           *)

self == vcon[1]

\* how many identifiers uuid4 is asked for
MaxNew == 4

\* the identifiers uuid4 draws from
Uuids == {"u" \o ToString(n) : n \in 1..MaxNew}

\* str(uuid4()): a random 122-bit identifier, taken here to be any one that
\* was not drawn before
uuid4(issued) == Uuids \ issued

\* the number of entries the container holds
Size(c) ==
    Len(ListOf(c.parties)) + Len(ListOf(c.dialog)) + Len(ListOf(c.analysis))
    + Len(ListOf(c.attachments))

\* vcon = VCon(...) or vcon = VCon.build_new()
Init ==
    \/ \E kw \in VConKws :
          /\ vcon = VCon(kw).obj
          /\ call = [op |-> "VCon", kw |-> kw, ok |-> VCon(kw).ok,
                     errs |-> VCon(kw).errs]
    \/ /\ vcon = build_new("u1", 1).obj
       /\ call = [op |-> "build_new", ok |-> build_new("u1", 1).ok]

\* vcon.add_party(Party(...))
AddParty(kw) ==
    /\ vcon # None
    /\ Size(self) < MaxOps
    /\ vcon' = Some(add_party(self, Party(kw)))
    /\ call' = [op |-> "add_party", arg |-> Party(kw)]

\* vcon.add_dialog(Dialog(...))
AddDialog(kw) ==
    /\ vcon # None
    /\ Size(self) < MaxOps
    /\ Dialog(kw).ok
    /\ vcon' = Some(add_dialog(self, Dialog(kw).obj[1]))
    /\ call' = [op |-> "add_dialog", arg |-> Dialog(kw).obj[1]]

\* vcon.add_analysis(Analysis(...))
AddAnalysis(kw) ==
    /\ vcon # None
    /\ Size(self) < MaxOps
    /\ Analysis(kw).ok
    /\ vcon' = Some(add_analysis(self, Analysis(kw).obj[1]))
    /\ call' = [op |-> "add_analysis", arg |-> Analysis(kw).obj[1]]

\* vcon.add_attachment(Attachment(...))
AddAttachment(kw) ==
    /\ vcon # None
    /\ Size(self) < MaxOps
    /\ Attachment(kw).ok
    /\ vcon' = Some(add_attachment(self, Attachment(kw).obj[1]))
    /\ call' = [op |-> "add_attachment", arg |-> Attachment(kw).obj[1]]

\* vcon.add_tag(tag_name, tag_value) at the instant now
AddTag(tag_name, tag_value, now) ==
    /\ vcon # None
    /\ Size(add_tag(self, tag_name, tag_value, now)) <= MaxOps
    /\ vcon' = Some(add_tag(self, tag_name, tag_value, now))
    /\ call' = [op |-> "add_tag", name |-> tag_name, value |-> tag_value,
                now |-> now]

\* vcon.is_valid(); again tells that the call before was an is_valid too
IsValid ==
    /\ vcon # None
    /\ UNCHANGED vcon
    /\ call' = [op |-> "is_valid", ret |-> is_valid(self),
                again |-> call.op = "is_valid"]

\* VCon.build_from_json(vcon.to_json())
RoundTrip ==
    /\ vcon # None
    /\ UNCHANGED vcon
    /\ call' = [op |-> "build_from_json", doc |-> to_json(self),
                ret |-> build_from_json(to_json(self))]

Next ==
    \/ \E kw \in PartyKws : AddParty(kw)
    \/ \E kw \in DialogKws : AddDialog(kw)
    \/ \E kw \in AnalysisKws : AddAnalysis(kw)
    \/ \E kw \in AttachmentKws : AddAttachment(kw)
    \/ \E n \in TagNames, v \in TagValues, now \in Times : AddTag(n, v, now)
    \/ IsValid
    \/ RoundTrip

Spec == Init /\ [][Next]_vars

----------------------------------------------------------------------------
(* The exclusive fields: containers constructed with every combination of  *)
(* redacted, appended and group, then mutated.                             *)

\* the same combinations as documents to decode
ExclusiveDocs ==
    { ("uuid" :> Some("u1")) @@ ("created_at" :> Some(Text(1, "iso")))
      @@ Arg("redacted", redacted) @@ Arg("appended", appended)
      @@ Arg("group", group) :
        redacted \in {<<>>, <<Some(DumpRef(RedactedObj))>>},
        appended \in {<<>>, <<Some(DumpRef(AppendedObj))>>},
        group \in {<<>>, <<Some(<<>>)>>, <<Some(<<DumpRef(GroupItemObj)>>)>>} }

\* vcon = VCon(...) or vcon = VCon.build_from_json(...)
InitExclusive ==
    \/ \E kw \in ExclusiveKws :
          /\ vcon = VCon(kw).obj
          /\ call = [op |-> "VCon", kw |-> kw, ok |-> VCon(kw).ok,
                     errs |-> VCon(kw).errs]
    \/ \E doc \in ExclusiveDocs :
          /\ vcon = build_from_json(doc).obj
          /\ call = [op |-> "build_from_json", doc |-> doc,
                     ret |-> build_from_json(doc)]

NextExclusive == Next /\ Size(vcon'[1]) <= MaxExclusiveOps

SpecExclusive == InitExclusive /\ [][NextExclusive]_vars

----------------------------------------------------------------------------
(* The Dialog constructor on every set of keyword arguments, the dialog it *)
(* returns added to a container of NumParties parties.                     *)

\* the keyword arguments Dialog is called with
DialogInputs ==
    { Arg("type", type) @@ Arg("start", sp[1]) @@ Arg("parties", sp[2])
      @@ Arg("disposition", disposition) @@ Arg("body", body)
      @@ Arg("encoding", encoding) @@ Arg("url", url)
      @@ Arg("content_hash", content_hash) @@ Arg("transferee", transferee)
      @@ Arg("transferor", transferor) @@ Arg("transfer_target", transfer_target)
      @@ Arg("original", original) @@ Arg("consultation", consultation)
      @@ Arg("target_dialog", target_dialog) :
        type \in {<<>>} \cup {<<Some(t)>> : t \in DialogTypes},
        sp \in { <<<<Some(DateTime(1))>>, <<Some(PList(<<PInt(0), PInt(1)>>))>>>>,
                 <<<<Some(Text(1, "iso"))>>, <<Some(PInt(999))>>>>,
                 <<<<>>, <<Some(PInt(0))>>>> },
        disposition \in Choices("busy"),
        body \in {<<>>, <<Some("Hello")>>},
        encoding \in {<<>>, <<Some("json")>>},
        url \in {<<>>, <<Some("https://example.com/recording.wav")>>},
        content_hash \in {<<>>, <<Some("sha256:abc123")>>},
        transferee \in Choices(0),
        transferor \in {<<>>, <<Some(1)>>},
        transfer_target \in Choices(2),
        original \in {<<>>, <<Some(0)>>},
        consultation \in {<<>>, <<Some(0)>>},
        target_dialog \in {<<>>, <<Some(1)>>} }

RECURSIVE WithParties(_, _)
WithParties(c, n) ==
    IF n = 0 THEN c
    ELSE WithParties(add_party(c, Party("tel" :> Some("+1234567890"))), n - 1)

\* dialog = Dialog(...) is about to be called on a container of NumParties
\* parties
InitDialog ==
    \E kw \in DialogInputs :
        /\ vcon = Some(WithParties(build_new("u1", 1).obj[1], NumParties))
        /\ call = [op |-> "Dialog", kw |-> kw, done |-> FALSE]

\* dialog = Dialog(...)
ConstructDialog ==
    /\ call.op = "Dialog" /\ ~call.done
    /\ UNCHANGED vcon
    /\ call' = [op |-> "Dialog", kw |-> call.kw, done |-> TRUE,
                ok |-> Dialog(call.kw).ok, errs |-> Dialog(call.kw).errs,
                obj |-> Dialog(call.kw).obj]

\* vcon.add_dialog(dialog)
AddConstructed ==
    /\ call.op = "Dialog" /\ call.done /\ call.ok
    /\ vcon' = Some(add_dialog(self, call.obj[1]))
    /\ call' = [op |-> "add_dialog", arg |-> call.obj[1], kw |-> call.kw]

NextDialog == ConstructDialog \/ AddConstructed

SpecDialog == InitDialog /\ [][NextDialog]_vars

----------------------------------------------------------------------------
(* The Analysis constructor on every set of keyword arguments.             *)

\* the keyword arguments Analysis is called with
AnalysisInputs ==
    { Arg("type", type) @@ Arg("vendor", vendor) @@ Arg("encoding", encoding)
      @@ Arg("body", body) @@ Arg("url", url) @@ Arg("content_hash", content_hash)
      @@ Arg("dialog", dialog) :
        type \in {<<>>, <<Some("sentiment")>>},
        vendor \in {<<>>, <<Some("test")>>},
        encoding \in {<<>>, <<Some("json")>>, <<Some("none")>>},
        body \in {<<>>, <<None>>, <<Some(StrBody("invalid-json"))>>,
                  <<Some(DictBody("score" :> "0.8"))>>, <<Some(ListBody)>>},
        url \in {<<>>, <<Some("https://example.com/transcript.json")>>},
        content_hash \in {<<>>, <<Some("sha256:def456")>>},
        dialog \in {<<>>, <<Some(PInt(0))>>} }

\* analysis = Analysis(...) is about to be called
InitAnalysis ==
    \E kw \in AnalysisInputs :
        /\ vcon = build_new("u1", 1).obj
        /\ call = [op |-> "Analysis", kw |-> kw, done |-> FALSE]

\* analysis = Analysis(...)
ConstructAnalysis ==
    /\ call.op = "Analysis" /\ ~call.done
    /\ UNCHANGED vcon
    /\ call' = [op |-> "Analysis", kw |-> call.kw, done |-> TRUE,
                ok |-> Analysis(call.kw).ok, errs |-> Analysis(call.kw).errs,
                obj |-> Analysis(call.kw).obj]

\* vcon.add_analysis(analysis)
AddConstructedAnalysis ==
    /\ call.op = "Analysis" /\ call.done /\ call.ok
    /\ vcon' = Some(add_analysis(self, call.obj[1]))
    /\ call' = [op |-> "add_analysis", arg |-> call.obj[1], kw |-> call.kw]

NextAnalysis == ConstructAnalysis \/ AddConstructedAnalysis

SpecAnalysis == InitAnalysis /\ [][NextAnalysis]_vars

----------------------------------------------------------------------------
(* Claims about the Dialog constructor (SpecDialog).                       *)

\* the call Dialog(kw) has returned or raised
DialogDone == call.op = "Dialog" /\ call.done

Given(kw, f) == Get(kw, f) # None

ContentFields == {"body", "encoding", "url", "content_hash"}

TransferFieldSet == {TransferFields[k] : k \in 1..Len(TransferFields)}

ErrSet(errs) == {errs[k] : k \in 1..Len(errs)}

\* a transfer dialog with a start and parties and no disposition
TransferCase(kw) ==
    /\ Get(kw, "type") = Some("transfer")
    /\ Given(kw, "start") /\ Given(kw, "parties")
    /\ ~Given(kw, "disposition")

\* the party indices a parties value refers to, nested lists included
RECURSIVE Refs(_)
RECURSIVE RefsOfList(_, _)
Refs(p) == IF p.form = "int" THEN <<p.i>> ELSE RefsOfList(p.l, 1)
RefsOfList(l, k) == IF k > Len(l) THEN <<>> ELSE Refs(l[k]) \o RefsOfList(l, k + 1)

InRange(idx, count) == 0 <= idx /\ idx < count

AllInRange(p, count) == \A k \in 1..Len(Refs(p)) : InRange(Refs(p)[k], count)

\* C6: constructing a transfer Dialog (valid start and parties, no
\* disposition) fails whenever one of transferee, transferor,
\* transfer_target, original, target_dialog is not supplied, with a
\* violation naming the missing field; it succeeds when all five are
\* supplied, and is_valid then reports no violation if the parties indices
\* are in range
C6_TransferRequired ==
    /\ DialogDone /\ TransferCase(call.kw) =>
         LET missing == {f \in RequiredTransferFields : ~Given(call.kw, f)}
         IN  /\ missing # {} =>
                  /\ ~call.ok
                  /\ \A f \in missing : MsgRequired(f) \in ErrSet(call.errs)
             /\ missing = {} => call.ok
    /\ call.op = "add_dialog" /\ TransferCase(call.kw)
       /\ AllInRange(call.kw["parties"][1], Len(self.parties[1]))
         => is_valid(self).errors = <<>>

\* C7: constructing an incomplete Dialog without a disposition always fails
\* with the violation "disposition required for incomplete dialogs",
\* whatever the other fields are; with a disposition of the enumeration, a
\* start and parties, and no content or transfer field, it succeeds
C7_IncompleteDisposition ==
    DialogDone /\ Get(call.kw, "type") = Some("incomplete") =>
        /\ ~Given(call.kw, "disposition") =>
             ~call.ok /\ call.errs = <<Msg(MsgDisposition)>>
        /\ ( /\ Given(call.kw, "disposition")
             /\ call.kw["disposition"][1] \in Dispositions
             /\ Given(call.kw, "start") /\ Given(call.kw, "parties")
             /\ \A f \in ContentFields \cup TransferFieldSet : ~Given(call.kw, f) )
           => call.ok /\ call.obj[1].disposition = call.kw["disposition"]

\* an incomplete Dialog without a disposition, with a body and without a
\* start, was refused
C7_Witness ==
    /\ DialogDone /\ Get(call.kw, "type") = Some("incomplete")
    /\ ~Given(call.kw, "disposition") /\ Given(call.kw, "body")
    /\ ~Given(call.kw, "start")
    /\ ~call.ok

\* C8 as stated: an incomplete Dialog with a disposition that supplies any
\* of body, encoding, url or content_hash is refused, so no constructed
\* incomplete Dialog has one of the four
C8_Original ==
    DialogDone /\ Get(call.kw, "type") = Some("incomplete") =>
        /\ ( Given(call.kw, "disposition")
             /\ \E f \in ContentFields : Given(call.kw, f) ) => ~call.ok
        /\ call.ok => \A f \in ContentFields : call.obj[1][f] = None

\* C8 as amended: an incomplete Dialog with a disposition that supplies a
\* body or a url is refused with "body or url should not be present for
\* incomplete dialogs", so no constructed incomplete Dialog has a body or a
\* url
C8_IncompleteNoBodyUrl ==
    DialogDone /\ Get(call.kw, "type") = Some("incomplete") =>
        /\ ( Given(call.kw, "disposition")
             /\ (Given(call.kw, "body") \/ Given(call.kw, "url")) )
           => ~call.ok /\ call.errs = <<Msg(MsgNoContent)>>
        /\ call.ok => call.obj[1].body = None /\ call.obj[1].url = None

\* an incomplete Dialog with a disposition and a url, and no body, was
\* refused
C8_Witness ==
    /\ DialogDone /\ Get(call.kw, "type") = Some("incomplete")
    /\ Given(call.kw, "disposition") /\ Given(call.kw, "url")
    /\ ~Given(call.kw, "body")
    /\ ~call.ok

\* C9: a recording or text Dialog (start, parties, no disposition, no
\* transfer field) is constructed if and only if it has body and encoding,
\* or url and content_hash; otherwise it fails with "Dialog must have either
\* inline (body + encoding) or external (url + content_hash) content"
C9_RecordingTextContent ==
    ( /\ DialogDone /\ Get(call.kw, "type") \in {Some("recording"), Some("text")}
      /\ Given(call.kw, "start") /\ Given(call.kw, "parties")
      /\ ~Given(call.kw, "disposition")
      /\ \A f \in TransferFieldSet : ~Given(call.kw, f) ) =>
        LET inline == Given(call.kw, "body") /\ Given(call.kw, "encoding")
            external == Given(call.kw, "url") /\ Given(call.kw, "content_hash")
        IN  /\ call.ok <=> (inline \/ external)
            /\ ~call.ok => call.errs = <<Msg(MsgDialogContent)>>

\* a text Dialog with a body and no encoding, a url and no content_hash,
\* was refused
C9_Witness ==
    /\ DialogDone /\ Get(call.kw, "type") = Some("text")
    /\ Given(call.kw, "start") /\ Given(call.kw, "parties")
    /\ Given(call.kw, "body") /\ ~Given(call.kw, "encoding")
    /\ Given(call.kw, "url") /\ ~Given(call.kw, "content_hash")
    /\ \A f \in TransferFieldSet : ~Given(call.kw, f)
    /\ ~call.ok

----------------------------------------------------------------------------
(* Claims about the Analysis constructor (SpecAnalysis).                   *)

AnalysisDone == call.op = "Analysis" /\ call.done

\* an inline body, or a url with a content_hash; a json body is a dict or a
\* list
AnalysisContent(kw) ==
    /\ Given(kw, "body") \/ (Given(kw, "url") /\ Given(kw, "content_hash"))
    /\ (Get(kw, "encoding") = Some("json") /\ Given(kw, "body"))
         => kw["body"][1].kind \in {"dict", "list"}

NoAnalysisContent(kw) ==
    ~Given(kw, "body") /\ ~(Given(kw, "url") /\ Given(kw, "content_hash"))

\* C10 as stated: an Analysis is constructed exactly when type and vendor
\* are present and the content invariant holds, and fails with "Analysis must
\* have either inline (body) or external (url + content_hash) content" when
\* neither content mode is present
C10_Original ==
    AnalysisDone =>
        /\ call.ok <=> ( Given(call.kw, "type") /\ Given(call.kw, "vendor")
                         /\ AnalysisContent(call.kw) )
        /\ ( Given(call.kw, "type") /\ Given(call.kw, "vendor")
             /\ NoAnalysisContent(call.kw) )
           => call.errs = <<Msg(MsgAnalysisContent)>>

\* C10 as amended: an Analysis is constructed exactly when type, vendor and
\* encoding are present and the content invariant holds, and with the three
\* present it fails with "Analysis must have either inline (body) or external
\* (url + content_hash) content" when neither content mode is present
C10_AnalysisConstruction ==
    AnalysisDone =>
        /\ call.ok <=> ( Given(call.kw, "type") /\ Given(call.kw, "vendor")
                         /\ Given(call.kw, "encoding")
                         /\ AnalysisContent(call.kw) )
        /\ ( Given(call.kw, "type") /\ Given(call.kw, "vendor")
             /\ Given(call.kw, "encoding") /\ NoAnalysisContent(call.kw) )
           => ~call.ok /\ call.errs = <<Msg(MsgAnalysisContent)>>

\* an Analysis with type, vendor and a dict body and no encoding was
\* refused
C10_Witness ==
    /\ AnalysisDone
    /\ Given(call.kw, "type") /\ Given(call.kw, "vendor")
    /\ ~Given(call.kw, "encoding")
    /\ Given(call.kw, "body") /\ call.kw["body"][1].kind = "dict"
    /\ ~call.ok

----------------------------------------------------------------------------
(* Claims about the container (Spec, SpecExclusive).                       *)

\* C1: for every container reached by construction and add_* calls,
\* build_from_json(to_json(x)) succeeds and is field for field equal to x,
\* an absent dialog, analysis or attachments sequence staying absent and an
\* empty one staying empty
C1_RoundTrip ==
    call.op = "build_from_json" => call.ret.ok /\ call.ret.obj = vcon

\* how many of redacted present, appended present, group non-empty hold
NumExclusive(kw) ==
    Cardinality({f \in {"redacted", "appended"} : Given(kw, f)})
    + (IF Given(kw, "group") /\ kw["group"][1] # <<>> THEN 1 ELSE 0)

\* C2: constructing a container, directly or by build_from_json, with more
\* than one of redacted present, appended present, group non-empty fails
\* (an empty group does not count); so every container reached by add_*
\* calls holds at most one of the three
C2_Exclusive ==
    /\ call.op = "VCon" =>
         /\ call.ok <=> NumExclusive(call.kw) <= 1
         /\ call.ok <=> vcon # None
         /\ ~call.ok => call.errs = <<Msg(MsgExclusive)>>
    /\ call.op = "build_from_json" =>
         /\ call.ret.ok <=> NumExclusive(call.doc) <= 1
         /\ ~call.ret.ok => call.ret.errs = <<Msg(MsgExclusive)>>
    /\ vcon # None =>
         NumExclusive([f \in {"redacted", "appended", "group"} |-> self[f]]) <= 1

\* a container constructed with a redacted reference and an empty group has
\* been mutated
C2_Witness ==
    /\ vcon # None /\ call.op = "add_tag"
    /\ self.redacted # None /\ self.group = Some(<<>>)

\* how many times x occurs in the sequence s
Occurrences(s, x) == Cardinality({k \in 1..Len(s) : s[k] = x})

\* the indices the claims are checked for
Indices == {-1, 0, 1, 2, 3, 4, 999}

\* C3: is_valid reports exactly one violation for each party index a
\* dialog refers to (as a scalar, in a list or in a nested list) that lies
\* outside [0, party_count), naming the dialog's position and the index,
\* and none for an index inside the range
C3_PartyReferences ==
    call.op = "is_valid" =>
        \A i \in 1..Len(ListOf(self.dialog)) : \A idx \in Indices :
            Occurrences(call.ret.errors, MsgPartyIndex(i - 1, idx))
            = IF InRange(idx, Len(self.parties[1])) THEN 0
              ELSE Occurrences(Refs(self.dialog[1][i].parties[1]), idx)

\* the dialog indices an analysis refers to
AnalysisRefs(a) == IF a.dialog = None THEN <<>> ELSE Refs(a.dialog[1])

\* C4: is_valid reports exactly one violation for each index of an
\* analysis's dialog reference (a scalar or a list element) that lies
\* outside [0, dialog_count), naming the analysis position and the index,
\* and none for an index inside the range or an analysis without a reference
C4_DialogReferences ==
    call.op = "is_valid" =>
        \A i \in 1..Len(ListOf(self.analysis)) : \A idx \in Indices :
            Occurrences(call.ret.errors, MsgDialogIndex(i - 1, idx))
            = IF InRange(idx, Len(ListOf(self.dialog))) THEN 0
              ELSE Occurrences(AnalysisRefs(self.analysis[1][i]), idx)

\* is_valid has run on one dialog and an analysis with dialog = [0, 999],
\* and reported one violation of that analysis, for the index 999
C4_Witness ==
    /\ call.op = "is_valid"
    /\ Len(ListOf(self.dialog)) = 1 /\ Len(ListOf(self.analysis)) = 1
    /\ AnalysisRefs(self.analysis[1][1]) = <<0, 999>>
    /\ Occurrences(call.ret.errors, MsgDialogIndex(0, 999)) = 1
    /\ Occurrences(call.ret.errors, MsgDialogIndex(0, 0)) = 0
    /\ ~call.ret.ok

----------------------------------------------------------------------------
(* More claims about the Analysis constructor (SpecAnalysis).              *)

\* an Analysis call with type, vendor and the encoding e
EncodedAnalysis(e) ==
    /\ AnalysisDone
    /\ Given(call.kw, "type") /\ Given(call.kw, "vendor")
    /\ Get(call.kw, "encoding") = Some(e)

\* C11: an Analysis with encoding json and an inline body that is a string,
\* not a dict or a list, fails with "JSON body must be a dict or list"; the
\* check is on inline content only: json with url and content_hash and no
\* body is constructed, and so is a string body with another encoding
C11_JsonBody ==
    /\ ( EncodedAnalysis("json") /\ Given(call.kw, "body")
         /\ call.kw["body"][1].kind = "str" )
       => ~call.ok /\ call.errs = <<Msg(MsgJsonBody)>>
    /\ ( EncodedAnalysis("json") /\ ~Given(call.kw, "body")
         /\ Given(call.kw, "url") /\ Given(call.kw, "content_hash") )
       => call.ok /\ call.obj[1].body = None
    /\ ( EncodedAnalysis("none") /\ Given(call.kw, "body") ) => call.ok

\* a json Analysis with a string body, a url and a content_hash was refused
C11_Witness ==
    /\ EncodedAnalysis("json")
    /\ Given(call.kw, "body") /\ call.kw["body"][1].kind = "str"
    /\ Given(call.kw, "url") /\ Given(call.kw, "content_hash")
    /\ ~call.ok


----------------------------------------------------------------------------
(* The constructors of Attachment, GroupItem, Appended and Redacted on      *)
(* every set of keyword arguments, the entity they return then held by a   *)
(* container.                                                              *)

EntityClasses == {"Attachment", "GroupItem", "Appended", "Redacted"}

\* cls(kw)
Construct(cls, kw) ==
    CASE cls = "Attachment" -> Attachment(kw)
      [] cls = "GroupItem" -> GroupItem(kw)
      [] cls = "Appended" -> Appended(kw)
      [] cls = "Redacted" -> Redacted(kw)

\* the keyword arguments Attachment is called with
AttachmentInputs ==
    { Arg("type", type) @@ Arg("body", body) @@ Arg("encoding", encoding)
      @@ Arg("url", url) @@ Arg("content_hash", content_hash) :
        type \in {<<>>, <<Some("transcript")>>, <<Some("tags")>>},
        body \in {<<>>, <<None>>, <<Some(StrBody("This is a transcript"))>>,
                  <<Some(DictBody(<<>>))>>},
        encoding \in Choices("none"),
        url \in {<<>>, <<Some("https://example.com/a.txt")>>},
        content_hash \in Choices("sha256:abc123") }

\* the keyword arguments GroupItem, Appended and Redacted are called with
RefInputs ==
    { Arg("uuid", uuid) @@ Arg("body", body) @@ Arg("encoding", encoding)
      @@ Arg("url", url) @@ Arg("content_hash", content_hash) :
        uuid \in Choices("u0"),
        body \in {<<>>, <<Some("e30")>>},
        encoding \in Choices("json"),
        url \in Choices("https://example.com/v.json"),
        content_hash \in {<<>>, <<Some("sha256:abc123")>>} }

\* entity = cls(...) is about to be called, beside a new container
InitEntity ==
    \E cls \in EntityClasses :
        \E kw \in (IF cls = "Attachment" THEN AttachmentInputs ELSE RefInputs) :
            /\ vcon = build_new("u1", 1).obj
            /\ call = [op |-> "Entity", cls |-> cls, kw |-> kw, done |-> FALSE]

\* entity = cls(...)
ConstructEntity ==
    /\ call.op = "Entity" /\ ~call.done
    /\ UNCHANGED vcon
    /\ call' = [op |-> "Entity", cls |-> call.cls, kw |-> call.kw, done |-> TRUE,
                ok |-> Construct(call.cls, call.kw).ok,
                errs |-> Construct(call.cls, call.kw).errs,
                obj |-> Construct(call.cls, call.kw).obj]

\* vcon.add_attachment(entity), or vcon = VCon(..., redacted=entity) and the
\* like
HoldEntity ==
    /\ call.op = "Entity" /\ call.done /\ call.ok
    /\ vcon' =
         CASE call.cls = "Attachment" -> Some(add_attachment(self, call.obj[1]))
           [] call.cls = "GroupItem" ->
                VCon(("uuid" :> Some("u1")) @@ ("created_at" :> Some(DateTime(1)))
                     @@ ("group" :> Some(<<call.obj[1]>>))).obj
           [] call.cls = "Appended" ->
                VCon(("uuid" :> Some("u1")) @@ ("created_at" :> Some(DateTime(1)))
                     @@ ("appended" :> call.obj)).obj
           [] call.cls = "Redacted" ->
                VCon(("uuid" :> Some("u1")) @@ ("created_at" :> Some(DateTime(1)))
                     @@ ("redacted" :> call.obj)).obj
    /\ call' = [op |-> "hold", cls |-> call.cls, kw |-> call.kw]

\* vcon.add_tag(...) on the container that holds the entity
TagHolder(tag_name, tag_value) ==
    /\ call.op = "hold"
    /\ vcon' = Some(add_tag(self, tag_name, tag_value, MaxTime))
    /\ call' = [op |-> "add_tag", cls |-> call.cls, kw |-> call.kw,
                name |-> tag_name, value |-> tag_value]

NextEntity ==
    \/ ConstructEntity
    \/ HoldEntity
    \/ \E n \in TagNames, v \in TagValues : TagHolder(n, v)

SpecEntity == InitEntity /\ [][NextEntity]_vars


----------------------------------------------------------------------------
(* Claims about the constructors of the other entities (SpecEntity).       *)

EntityDone == call.op = "Entity" /\ call.done

\* body and encoding both present, or url and content_hash both present
HasContent(x) ==
    \/ x["body"] # None /\ x["encoding"] # None
    \/ x["url"] # None /\ x["content_hash"] # None

\* the content-presence invariant of each class, of a record of fields
ContentInvariant(cls, x) ==
    CASE cls = "Attachment" -> HasContent(x)
      [] cls \in {"GroupItem", "Appended"} -> x["uuid"] # None \/ HasContent(x)
      [] cls = "Redacted" -> x["uuid"] # None

\* the fields a call supplies, None for the others
Supplied(kw) ==
    [f \in {"uuid", "body", "encoding", "url", "content_hash"} |-> Get(kw, f)]

\* the violation a class reports for a missing mode
ContentMessage(cls) ==
    CASE cls = "Attachment" -> Msg(MsgAttachmentContent)
      [] cls = "GroupItem" -> Msg(MsgGroupItemContent)
      [] cls = "Appended" -> Msg(MsgAppendedContent)
      [] cls = "Redacted" -> MsgMissing("uuid")

\* C12: an Attachment is constructed only with body and encoding or url and
\* content_hash, a GroupItem or an Appended only with a uuid or one of the
\* two pairs, a Redacted only with a uuid; with none of its modes the
\* construction fails, and every such entity a container holds satisfies the
\* invariant of its class
C12_ContentPresence ==
    /\ EntityDone =>
         /\ call.ok => ContentInvariant(call.cls, Supplied(call.kw))
         /\ ( ~ContentInvariant(call.cls, Supplied(call.kw))
              /\ (call.cls = "Attachment" => Given(call.kw, "type")) )
            => ~call.ok /\ call.obj = None
               /\ call.errs = <<ContentMessage(call.cls)>>
    /\ vcon # None =>
         /\ \A k \in 1..Len(ListOf(self.attachments)) :
                ContentInvariant("Attachment", self.attachments[1][k])
         /\ \A k \in 1..Len(ListOf(self.group)) :
                ContentInvariant("GroupItem", self.group[1][k])
         /\ self.appended # None => ContentInvariant("Appended", self.appended[1])
         /\ self.redacted # None => ContentInvariant("Redacted", self.redacted[1])

\* an Attachment with a type, a body and no encoding, a url and no
\* content_hash was refused
C12_Witness ==
    /\ EntityDone /\ call.cls = "Attachment" /\ Given(call.kw, "type")
    /\ Given(call.kw, "body") /\ ~Given(call.kw, "encoding")
    /\ Given(call.kw, "url") /\ ~Given(call.kw, "content_hash")
    /\ ~call.ok


----------------------------------------------------------------------------
(* VCon.build_new called again and again.  call.issued holds the            *)
(* identifiers of the containers made so far, the present one included.     *)

InitBuildNew ==
    \E u \in uuid4({}), t \in Times :
        /\ vcon = build_new(u, t).obj
        /\ call = [op |-> "build_new", ok |-> build_new(u, t).ok,
                   before |-> {}, issued |-> {u}]

\* vcon = VCon.build_new()
BuildNew ==
    /\ uuid4(call.issued) # {}
    /\ \E u \in uuid4(call.issued), t \in Times :
        /\ vcon' = build_new(u, t).obj
        /\ call' = [op |-> "build_new", ok |-> build_new(u, t).ok,
                    before |-> call.issued, issued |-> call.issued \cup {u}]

\* vcon.is_valid() on the container build_new returned
IsValidNew ==
    /\ call.op = "build_new" /\ vcon # None
    /\ UNCHANGED vcon
    /\ call' = [op |-> "is_valid", ret |-> is_valid(self),
                before |-> call.before, issued |-> call.issued]

NextBuildNew == BuildNew \/ IsValidNew

SpecBuildNew == InitBuildNew /\ [][NextBuildNew]_vars

\* C13: build_new succeeds and returns a container with a non-empty
\* identifier that no container made by build_new before has, version
\* "0.0.2", a created_at that is a datetime, no updated_at, and parties,
\* dialog, analysis and attachments present and empty; is_valid on it
\* returns (True, [])
C13_BuildNew ==
    /\ call.op = "build_new" =>
         /\ call.ok /\ vcon # None
         /\ self.uuid # None /\ self.uuid[1] # "" /\ self.uuid[1] \notin call.before
         /\ self.vcon = Some("0.0.2")
         /\ self.created_at # None /\ self.created_at[1].tag = "datetime"
         /\ self.updated_at = None
         /\ self.parties = Some(<<>>) /\ self.dialog = Some(<<>>)
         /\ self.analysis = Some(<<>>) /\ self.attachments = Some(<<>>)
    /\ call.op = "is_valid" => call.ret = [ok |-> TRUE, errors |-> <<>>]

\* is_valid has run on the third container build_new made
C13_Witness ==
    /\ call.op = "is_valid" /\ Cardinality(call.before) = 2
    /\ call.ret.ok


----------------------------------------------------------------------------
(* Claims about the mutators and the lookups (Spec).                       *)

\* the step appended call'.arg to the sequence f, an absent sequence counting
\* as empty, and changed no other field of the container
AppendsTo(f) ==
    /\ vcon'[1][f] = Some(Append(ListOf(self[f]), call'.arg))
    /\ Len(vcon'[1][f][1]) = Len(ListOf(self[f])) + 1
    /\ \A k \in 1..Len(ListOf(self[f])) : vcon'[1][f][1][k] = self[f][1][k]
    /\ \A g \in DOMAIN self \ {f} : vcon'[1][g] = self[g]

\* C14: add_party, add_dialog, add_analysis and add_attachment put the
\* entity at the end of their own sequence (an absent dialog, analysis or
\* attachments sequence first becoming empty), keep the entries before it in
\* place, and leave every other sequence and uuid, version, created_at and
\* updated_at unchanged
C14_AppendOnly ==
    [][ /\ call'.op = "add_party" => AppendsTo("parties")
        /\ call'.op = "add_dialog" => AppendsTo("dialog")
        /\ call'.op = "add_analysis" => AppendsTo("analysis")
        /\ call'.op = "add_attachment" => AppendsTo("attachments") ]_vars

\* a second, different dialog was added to a container constructed without
\* a dialog sequence, whose analysis sequence is still absent
C14_Witness ==
    /\ call.op = "add_dialog"
    /\ Len(ListOf(self.dialog)) = 2 /\ self.dialog[1][2] = call.arg
    /\ self.dialog[1][1] # call.arg
    /\ self.analysis = None


----------------------------------------------------------------------------
(* The life of a container with the lookups: a second text dialog and a     *)
(* second transcript are added too, so that two entries match a lookup.    *)

FindDialogKws == { TextDialogKw(Text(2, "iso"), PInt(1)) }

FindAttachmentKws ==
    { ("type" :> Some("transcript")) @@ ("url" :> Some("https://example.com/t.txt"))
      @@ ("content_hash" :> Some("sha256:abc123")) }

\* the (by, val) pairs the lookups are called with
FindPartyArgs ==
    { <<"tel", Some("+1234567890")>>, <<"name", Some("Jane")>>,
      <<"name", Some("nobody")>>, <<"nofield", Some("Jane")>> }

FindDialogArgs ==
    { <<"type", Some("text")>>, <<"body", Some("Hello, world!")>>,
      <<"type", Some("recording")>>, <<"nofield", Some("text")>> }

\* vcon.find_party_index(by, val)
FindPartyIndex(by, val) ==
    /\ vcon # None
    /\ UNCHANGED vcon
    /\ call' = [op |-> "find_party_index", by |-> by, val |-> val,
                ret |-> find_party_index(self, by, val)]

\* vcon.find_dialog(by, val)
FindDialog(by, val) ==
    /\ vcon # None
    /\ UNCHANGED vcon
    /\ call' = [op |-> "find_dialog", by |-> by, val |-> val,
                ret |-> find_dialog(self, by, val)]

\* vcon.find_analysis_by_type(type)
FindAnalysisByType(type) ==
    /\ vcon # None
    /\ UNCHANGED vcon
    /\ call' = [op |-> "find_analysis_by_type", type |-> type,
                ret |-> find_analysis_by_type(self, type)]

\* vcon.find_attachment_by_type(type)
FindAttachmentByType(type) ==
    /\ vcon # None
    /\ UNCHANGED vcon
    /\ call' = [op |-> "find_attachment_by_type", type |-> type,
                ret |-> find_attachment_by_type(self, type)]

NextFind ==
    \/ Next
    \/ \E kw \in FindDialogKws : AddDialog(kw)
    \/ \E kw \in FindAttachmentKws : AddAttachment(kw)
    \/ \E a \in FindPartyArgs : FindPartyIndex(a[1], a[2])
    \/ \E a \in FindDialogArgs : FindDialog(a[1], a[2])
    \/ \E type \in {"sentiment", "transcription", "summary"} :
            FindAnalysisByType(type)
    \/ \E type \in {"transcript", "tags", "summary"} : FindAttachmentByType(type)

SpecFind == Init /\ [][NextFind]_vars


----------------------------------------------------------------------------
(* Claims about the lookups (SpecFind).                                    *)

Lookups ==
    {"find_party_index", "find_dialog", "find_analysis_by_type",
     "find_attachment_by_type"}

\* the smallest of a non-empty set of positions
Smallest(hits) == CHOOSE k \in hits : \A j \in hits : k <= j

\* the positions of the entries of s whose field by equals val
Matches(s, by, val) == {k \in 1..Len(s) : by \in DOMAIN s[k] /\ s[k][by] = val}

\* what a lookup over the sequence s returns when it returns the entry
FirstEntry(s, by, val) ==
    IF Matches(s, by, val) = {} THEN None ELSE Some(s[Smallest(Matches(s, by, val))])

\* what the lookup of the last call has to return on the container c
Expected(c, k) ==
    CASE k.op = "find_party_index" ->
           IF Matches(ListOf(c.parties), k.by, k.val) = {} THEN None
           ELSE Some(Smallest(Matches(ListOf(c.parties), k.by, k.val)) - 1)
      [] k.op = "find_dialog" -> FirstEntry(ListOf(c.dialog), k.by, k.val)
      [] k.op = "find_analysis_by_type" ->
           FirstEntry(ListOf(c.analysis), "type", Some(k.type))
      [] k.op = "find_attachment_by_type" ->
           FirstEntry(ListOf(c.attachments), "type", Some(k.type))

\* C15: find_party_index returns the smallest index of a party whose field
\* equals the value, find_dialog, find_analysis_by_type and
\* find_attachment_by_type the entry at the smallest matching position; each
\* returns None when nothing matches or the sequence is empty or absent; a
\* lookup leaves the container as it was
C15_FirstMatch ==
    [][ call'.op \in Lookups =>
          /\ vcon' = vcon
          /\ call'.ret = Expected(self, call') ]_vars

\* find_analysis_by_type returned the first of two different analyses of the
\* type
C15_Witness ==
    /\ call.op = "find_analysis_by_type"
    /\ Len(ListOf(self.analysis)) = 2
    /\ self.analysis[1][1] # self.analysis[1][2]
    /\ self.analysis[1][2].type = Some(call.type)
    /\ call.ret = Some(self.analysis[1][1])


----------------------------------------------------------------------------
(* Tags: add_tag, add_attachment and get_tag on a container made by         *)
(* build_new.  call.set remembers, for every name, the value of the latest  *)
(* add_tag of that name; call.supplied tells that add_attachment was given  *)
(* an attachment of type "tags" whose body is a dict.                      *)

\* the most attachments a container of tags holds
MaxTagOps == 2

\* the attachments added beside the tags
TagAttachmentKws ==
    { ("type" :> Some("tags")) @@ ("body" :> Some(StrBody("a,b")))
      @@ ("encoding" :> Some("none")),
      ("type" :> Some("tags")) @@ ("body" :> Some(DictBody("category" :> "other")))
      @@ ("encoding" :> Some("json")),
      ("type" :> Some("transcript")) @@ ("body" :> Some(StrBody("This is a transcript")))
      @@ ("encoding" :> Some("none")) }

InitTags ==
    /\ vcon = build_new("u1", 1).obj
    /\ call = [op |-> "build_new", set |-> [n \in TagNames |-> None],
               supplied |-> FALSE]

\* vcon.add_tag(tag_name, tag_value) at the instant now
TagAdd(tag_name, tag_value, now) ==
    /\ Len(ListOf(add_tag(self, tag_name, tag_value, now).attachments)) <= MaxTagOps
    /\ vcon' = Some(add_tag(self, tag_name, tag_value, now))
    /\ call' = [op |-> "add_tag", name |-> tag_name, value |-> tag_value,
                now |-> now,
                set |-> [call.set EXCEPT ![tag_name] = Some(tag_value)],
                supplied |-> call.supplied]

\* vcon.add_attachment(Attachment(...))
TagAttach(kw) ==
    /\ Len(ListOf(self.attachments)) < MaxTagOps
    /\ Attachment(kw).ok
    /\ vcon' = Some(add_attachment(self, Attachment(kw).obj[1]))
    /\ call' = [op |-> "add_attachment", arg |-> Attachment(kw).obj[1],
                set |-> call.set,
                supplied |-> \/ call.supplied
                             \/ /\ kw["type"] = Some("tags")
                                /\ kw["body"][1].kind = "dict"]

\* vcon.get_tag(tag_name)
TagGet(tag_name) ==
    /\ UNCHANGED vcon
    /\ call' = [op |-> "get_tag", name |-> tag_name,
                ret |-> get_tag(self, tag_name),
                set |-> call.set, supplied |-> call.supplied]

NextTags ==
    \/ \E n \in TagNames, v \in TagValues, now \in Times : TagAdd(n, v, now)
    \/ \E kw \in TagAttachmentKws : TagAttach(kw)
    \/ \E n \in TagNames : TagGet(n)

SpecTags == InitTags /\ [][NextTags]_vars

\* C16 as stated: get_tag(k) returns the value of the latest add_tag(k, v),
\* whatever add_tag of other names and add_attachment calls came between,
\* and None for a name no add_tag has set
C16_Original ==
    call.op = "get_tag" => call.ret = call.set[call.name]

\* C16 as amended: get_tag(k) returns the value of the latest add_tag(k, v);
\* for a name no add_tag has set it returns None, as long as add_attachment
\* was given no attachment of type "tags" with a dict body
C16_ReadYourWrites ==
    call.op = "get_tag" =>
        /\ call.set[call.name] # None => call.ret = call.set[call.name]
        /\ (call.set[call.name] = None /\ ~call.supplied) => call.ret = None

\* get_tag returned the value of the latest add_tag of its name, set twice,
\* with the other name set as well and two attachments of type "tags" held
C16_Witness ==
    /\ call.op = "get_tag" /\ call.ret = Some("high")
    /\ call.set[call.name] = Some("high")
    /\ \A n \in TagNames : call.set[n] # None
    /\ Cardinality({k \in 1..Len(ListOf(self.attachments)) :
                      self.attachments[1][k].type = Some("tags")}) = 2


----------------------------------------------------------------------------
(* Claims about add_tag (Spec).                                            *)

\* the positions of the attachments of type "tags" in the sequence s
TagsAt(s) == {k \in 1..Len(s) : s[k].type = Some("tags")}

\* the map a body holds, empty when the body is not a dict
MapOf(body) == IF body # None /\ body[1].kind = "dict" THEN body[1].map ELSE <<>>

\* the add_tag step from the attachments before to the attachments after
TagStep(before, after, name, value) ==
    IF TagsAt(before) = {}
    THEN /\ Len(after) = Len(before) + 1
         /\ \A j \in 1..Len(before) : after[j] = before[j]
         /\ after[Len(after)].type = Some("tags")
         /\ after[Len(after)].encoding = Some("json")
         /\ after[Len(after)].body = Some(DictBody(name :> value))
    ELSE LET k == Smallest(TagsAt(before))
         IN  /\ Len(after) = Len(before)
             /\ \A j \in 1..Len(before) : j # k => after[j] = before[j]
             /\ after[k] = [before[k] EXCEPT !.body =
                              Some(DictBody(DictSet(MapOf(before[k].body), name, value)))]
             /\ TagsAt(after) = TagsAt(before)

\* C17: the first add_tag on a container without an attachment of type
\* "tags" appends one, with json encoding and a dict body; an add_tag on a
\* container that has one writes into the first of them and changes neither
\* the length nor the order of the attachments, so add_tag never makes a
\* second one; every add_tag sets updated_at to the present instant and
\* changes nothing in parties, dialog and analysis
C17_SingleTagsAttachment ==
    [][ call'.op = "add_tag" =>
          /\ TagStep(ListOf(self.attachments), vcon'[1].attachments[1],
                     call'.name, call'.value)
          /\ vcon'[1].updated_at = Some(DateTime(call'.now))
          /\ \A f \in DOMAIN self \ {"attachments", "updated_at"} :
                vcon'[1][f] = self[f] ]_vars

\* the second add_tag, of another name and at a later instant, on a
\* container constructed without an attachments sequence: one attachment,
\* both names in its map
C17_Witness ==
    /\ call.op = "add_tag" /\ call.now = MaxTime
    /\ self.dialog = None
    /\ Len(ListOf(self.attachments)) = 1
    /\ DOMAIN MapOf(self.attachments[1][1].body) = TagNames
    /\ self.updated_at = Some(DateTime(MaxTime))


----------------------------------------------------------------------------
(* The life of a container with constructions that fail: the statement      *)
(* vcon.add_dialog(Dialog(...)) evaluates Dialog(...) first, and when that  *)
(* raises add_dialog is not called.                                        *)

\* cls(kw) for every class
ConstructAny(cls, kw) ==
    CASE cls = "Dialog" -> Dialog(kw)
      [] cls = "Analysis" -> Analysis(kw)
      [] cls = "VCon" -> VCon(kw)
      [] OTHER -> Construct(cls, kw)

\* a faulty Attempt: the sequence is emptied before the entity is constructed
Attempt_emptied(c, cls, kw) ==
    LET r == ConstructAny(cls, kw)
    IN  CASE cls = "Dialog" ->
               IF r.ok THEN add_dialog(c, r.obj[1]) ELSE [c EXCEPT !.dialog = Some(<<>>)]
          [] cls = "Analysis" ->
               IF r.ok THEN add_analysis(c, r.obj[1]) ELSE [c EXCEPT !.analysis = Some(<<>>)]
          [] cls = "Attachment" ->
               IF r.ok THEN add_attachment(c, r.obj[1])
               ELSE [c EXCEPT !.attachments = Some(<<>>)]
          [] OTHER -> c

\* the container c after vcon.add_dialog(Dialog(kw)), vcon.add_analysis(
\* Analysis(kw)), vcon.add_attachment(Attachment(kw)), or after the
\* construction of an entity of another class beside it
Attempt(c, cls, kw) ==
    LET r == ConstructAny(cls, kw)
    IN  CASE cls = "Dialog" -> IF r.ok THEN add_dialog(c, r.obj[1]) ELSE c
          [] cls = "Analysis" -> IF r.ok THEN add_analysis(c, r.obj[1]) ELSE c
          [] cls = "Attachment" -> IF r.ok THEN add_attachment(c, r.obj[1]) ELSE c
          [] OTHER -> c

\* the constructions attempted: one that fails for every class, and one
\* that succeeds
AttemptCalls ==
    { <<"Dialog", ("type" :> Some("text")) @@ ("start" :> Some(DateTime(1)))
                  @@ ("parties" :> Some(PInt(0)))>>,
      <<"Analysis", ("type" :> Some("sentiment")) @@ ("vendor" :> Some("test"))
                    @@ ("body" :> Some(StrBody("invalid-json")))
                    @@ ("encoding" :> Some("json"))>>,
      <<"Attachment", ("type" :> Some("transcript"))>>,
      <<"GroupItem", <<>>>>,
      <<"Appended", <<>>>>,
      <<"Redacted", ("body" :> Some("e30")) @@ ("encoding" :> Some("json"))>>,
      <<"VCon", ("uuid" :> Some("u2")) @@ ("created_at" :> Some(Text(1, "bad")))>>,
      <<"Attachment", ("type" :> Some("transcript")) @@ ("body" :> Some(StrBody("t")))
                      @@ ("encoding" :> Some("none"))>> }

\* vcon.add_dialog(Dialog(...)) and the like, the construction failing or
\* not; after tells that the call before was a construction that failed
AttemptAdd(cls, kw) ==
    /\ vcon # None
    /\ Size(Attempt(self, cls, kw)) <= MaxOps
    /\ vcon' = Some(Attempt(self, cls, kw))
    /\ call' = [op |-> "construct", cls |-> cls, kw |-> kw,
                ok |-> ConstructAny(cls, kw).ok,
                errs |-> ConstructAny(cls, kw).errs,
                obj |-> ConstructAny(cls, kw).obj,
                after |-> call.op = "construct" /\ ~call.ok]

NextAbort ==
    \/ \E kw \in PartyKws : AddParty(kw)
    \/ \E kw \in DialogKws : AddDialog(kw)
    \/ IsValid
    \/ RoundTrip
    \/ \E a \in AttemptCalls : AttemptAdd(a[1], a[2])

SpecAbort == Init /\ [][NextAbort]_vars

----------------------------------------------------------------------------
(* Claims about reference violations and decoding (Spec, SpecDecode).      *)

\* the out-of-range indices of refs from position k on, each as the
\* violation Violation(_) makes of it
RECURSIVE OutOfRangeFrom(_, _, _, _, _)
OutOfRangeFrom(refs, k, count, i, kind) ==
    IF k > Len(refs) THEN <<>>
    ELSE (IF InRange(refs[k], count) THEN <<>>
          ELSE <<IF kind = "dialog" THEN MsgPartyIndex(i, refs[k])
                 ELSE MsgDialogIndex(i, refs[k])>>)
         \o OutOfRangeFrom(refs, k + 1, count, i, kind)

\* every reference violation of the dialogs from position k on, in order
RECURSIVE DialogViolations(_, _)
DialogViolations(c, k) ==
    IF k > Len(ListOf(c.dialog)) THEN <<>>
    ELSE OutOfRangeFrom(Refs(c.dialog[1][k].parties[1]), 1,
                        Len(ListOf(c.parties)), k - 1, "dialog")
         \o DialogViolations(c, k + 1)

\* every reference violation of the analyses from position k on, in order
RECURSIVE AnalysisViolations(_, _)
AnalysisViolations(c, k) ==
    IF k > Len(ListOf(c.analysis)) THEN <<>>
    ELSE OutOfRangeFrom(AnalysisRefs(c.analysis[1][k]), 1,
                        Len(ListOf(c.dialog)), k - 1, "analysis")
         \o AnalysisViolations(c, k + 1)

\* C19: a dialog with a party index out of range and an analysis with a
\* dialog index out of range are constructed and added, and a document with
\* such references is decoded; is_valid alone reports them, and its list is
\* every violation of the document: those of the dialogs in dialog order,
\* then those of the analyses in analysis order
C19_ReferencesExhaustive ==
    /\ \A kw \in DialogKws : Dialog(kw).ok
    /\ \A kw \in AnalysisKws : Analysis(kw).ok
    /\ call.op = "build_from_json" => call.ret.ok
    /\ call.op = "is_valid" =>
         call.ret.errors = DialogViolations(self, 1) \o AnalysisViolations(self, 1)


----------------------------------------------------------------------------
(* Decoding: build_from_json on persisted documents whose container fields *)
(* and nested field sets are well-formed or malformed, each on its own and *)
(* together.                                                               *)

\* the dialog lists of the documents: none, a complete one, an incomplete
\* dialog without disposition, a text dialog without content, a good dialog
\* followed by a transfer whose transfer_target is null, and an incomplete
\* dialog whose party index is out of range
DecodeDialogs ==
    { <<>>,
      <<Some(<<TextDialogKw(Text(1, "iso"), PInt(0))>>)>>,
      <<Some(<<("type" :> Some("incomplete")) @@ ("start" :> Some(Text(1, "iso")))
               @@ ("parties" :> Some(PInt(0)))>>)>>,
      <<Some(<<("type" :> Some("text")) @@ ("start" :> Some(Text(1, "iso")))
               @@ ("parties" :> Some(PInt(0)))>>)>>,
      <<Some(<<TextDialogKw(Text(1, "iso"), PInt(0)),
               Replace(TransferDialogKw(Text(1, "iso"), PInt(0)),
                       "transfer_target" :> None)>>)>>,
      <<Some(<<IncompleteDialogKw(Text(1, "alt"), PInt(999))>>)>> }

\* the analysis lists: none, a good one, a json analysis with a text body,
\* an analysis without encoding
DecodeAnalyses ==
    { <<>>,
      <<Some(<<AnalysisKw(<<Some(PInt(0))>>)>>)>>,
      <<Some(<<Replace(AnalysisKw(<<>>), "body" :> Some(StrBody("not a dict or list")))>>)>>,
      <<Some(<<("type" :> Some("sentiment")) @@ ("vendor" :> Some("test"))
               @@ ("body" :> Some(DictBody("score" :> "0.8")))>>)>> }

\* the attachment lists: none, a good one, one with a type alone
DecodeAttachments ==
    { <<>>,
      <<Some(<<("type" :> Some("transcript")) @@ ("body" :> Some(StrBody("text")))
               @@ ("encoding" :> Some("none"))>>)>>,
      <<Some(<<"type" :> Some("transcript")>>)>> }

\* the documents decoded
DecodeDocs ==
    { ("uuid" :> Some("u1")) @@ Arg("created_at", created_at)
      @@ Arg("dialog", dialog) @@ Arg("analysis", analysis)
      @@ Arg("attachments", attachments)
      @@ Arg("redacted", redacted) @@ Arg("appended", appended)
      @@ Arg("group", group) :
        created_at \in {<<>>, <<Some(Text(1, "iso"))>>, <<Some(Text(1, "alt"))>>,
                        <<Some(Text(1, "invalid-date"))>>},
        dialog \in DecodeDialogs,
        analysis \in DecodeAnalyses,
        attachments \in DecodeAttachments,
        redacted \in {<<>>, <<Some(DumpRef(RedactedObj))>>},
        appended \in {<<>>, <<Some(DumpRef(AppendedObj))>>, <<Some(<<>>)>>},
        group \in {<<>>, <<Some(<<>>)>>, <<Some(<<DumpRef(GroupItemObj)>>)>>} }

\* a document is at hand, nothing decoded yet
InitDecode ==
    /\ vcon = None
    /\ \E doc \in DecodeDocs : call = [op |-> "json", doc |-> doc]

\* vcon = VCon.build_from_json(json_string); the ValidationError leaves no
\* container behind
Decode ==
    /\ call.op = "json"
    /\ call' = [op |-> "build_from_json", doc |-> call.doc,
                ret |-> build_from_json(call.doc)]
    /\ vcon' = build_from_json(call.doc).obj

NextDecode ==
    \/ Decode
    \/ IsValid

SpecDecode == InitDecode /\ [][NextDecode]_vars


\* the field sets of the list field f of a document
FieldSets(doc, f) ==
    IF Given(doc, f) THEN {doc[f][1][k] : k \in 1..Len(doc[f][1])} ELSE {}

\* constructing the field sets of the document passes the rules of the
\* fields: every nested entity its own constructor, the container fields
\* those of VCon
FieldsConstructible(doc) ==
    /\ Given(doc, "uuid") /\ Given(doc, "created_at")
    /\ \A f \in {"created_at", "updated_at"} :
          Given(doc, f) /\ doc[f][1].tag = "str" => CanParse(doc[f][1])
    /\ \A d \in FieldSets(doc, "dialog") : Dialog(d).ok
    /\ \A a \in FieldSets(doc, "analysis") : Analysis(a).ok
    /\ \A a \in FieldSets(doc, "attachments") : Attachment(a).ok
    /\ \A g \in FieldSets(doc, "group") : GroupItem(g).ok
    /\ Given(doc, "redacted") => Redacted(doc["redacted"][1]).ok
    /\ Given(doc, "appended") => Appended(doc["appended"][1]).ok

\* ... and the container would be constructed of them
Constructible(doc) == FieldsConstructible(doc) /\ NumExclusive(doc) <= 1

\* the message m is among the errors of the decode
Reported(m) == \E k \in 1..Len(call.ret.errs) : call.ret.errs[k] = Msg(m)

\* some dialog of the document is of this type and lacks these fields
SomeDialog(doc, type, lacking) ==
    \E d \in FieldSets(doc, "dialog") :
        Get(d, "type") = Some(type) /\ \A f \in lacking : ~Given(d, f)

\* C20: build_from_json fails exactly when constructing the same field sets
\* would fail, and then yields no container: an unparseable created_at, an
\* incomplete dialog without disposition, a text dialog without content and
\* two of redacted/appended/non-empty group each fail the decode with the
\* message of the construction rule; a document whose field sets all
\* satisfy the rules decodes
C20_DecodeRevalidates ==
    call.op = "build_from_json" =>
        LET doc == call.doc
        IN  /\ call.ret.ok <=> Constructible(doc)
            /\ call.ret.ok <=> vcon # None
            /\ ~call.ret.ok => call.ret.obj = None /\ call.ret.errs # <<>>
            /\ Given(doc, "created_at") /\ ~CanParse(doc["created_at"][1])
                 => ~call.ret.ok /\ Reported(MsgDates)
            /\ SomeDialog(doc, "incomplete", {"disposition"})
                 => ~call.ret.ok /\ Reported(MsgDisposition)
            /\ SomeDialog(doc, "text", {"body", "url"})
                 => ~call.ret.ok /\ Reported(MsgDialogContent)
            /\ NumExclusive(doc) > 1 => ~call.ret.ok
            /\ call.ret.errs = <<Msg(MsgExclusive)>>
                 <=> NumExclusive(doc) > 1
                     /\ FieldsConstructible(doc)

\* a document whose one defect is an incomplete dialog without disposition
\* has failed to decode, and one with good dialog, analysis and attachment
\* would not have
C20_Witness ==
    /\ call.op = "build_from_json" /\ ~call.ret.ok /\ vcon = None
    /\ call.ret.errs = <<Msg(MsgDisposition)>>
    /\ Given(call.doc, "analysis") /\ Given(call.doc, "attachments")
    /\ Given(call.doc, "redacted")


----------------------------------------------------------------------------
(* Encoding: to_json on containers that hold parties with and without a    *)
(* civic address, dialogs whose start and party-history times are native   *)
(* times or texts, analyses and attachments.                               *)

\* PartyHistory(party=..., event=..., time=...): time: Union[datetime, str]
\* keeps a text as the text it is
PartyHistory(kw) ==
    [party |-> Get(kw, "party"), event |-> Get(kw, "event"),
     time |-> Get(kw, "time")]

\* the event of party 0 at the time given
HistoryAt(time) ==
    PartyHistory(("party" :> Some(0)) @@ ("event" :> Some("join"))
                 @@ ("time" :> Some(time)))

\* the dialogs encoded: start a native time, a text in ISO 8601 form and a
\* text that is no timestamp; a history whose times are native or texts
EncodeDialogKws ==
    { TextDialogKw(DateTime(1), PInt(0)),
      TextDialogKw(Text(1, "iso"), PInt(0)),
      TextDialogKw(Text(1, "invalid-date"), PInt(0)),
      TextDialogKw(DateTime(1), PInt(0))
      @@ ("party_history" :> Some(<<HistoryAt(DateTime(1)),
                                    HistoryAt(Text(2, "iso"))>>)),
      IncompleteDialogKw(DateTime(2), PInt(0))
      @@ ("party_history" :> Some(<<HistoryAt(Text(1, "invalid-date"))>>)) }

\* tree = json.loads(vcon.to_json())
ToJson ==
    /\ vcon # None
    /\ call.op # "to_json"
    /\ UNCHANGED vcon
    /\ call' = [op |-> "to_json", doc |-> to_json(self)]

NextEncode ==
    \/ \E kw \in PartyKws : AddParty(kw)
    \/ \E kw \in EncodeDialogKws : AddDialog(kw)
    \/ \E kw \in AnalysisKws : AddAnalysis(kw)
    \/ \E kw \in AttachmentKws : AddAttachment(kw)
    \/ \E n \in TagNames, v \in TagValues, now \in Times : AddTag(n, v, now)
    \/ ToJson

\* vcon = VCon(...) with a redacted, an appended or a group of references
\* and an updated_at, or vcon = VCon.build_new()
InitEncode ==
    \/ Init
    \/ \E kw \in { ("uuid" :> Some("u1")) @@ ("created_at" :> Some(Text(1, "iso")))
                   @@ ("updated_at" :> Some(Text(2, "alt")))
                   @@ ("appended" :> Some(AppendedObj)),
                   ("uuid" :> Some("u1")) @@ ("created_at" :> Some(DateTime(1)))
                   @@ ("subject" :> Some("call"))
                   @@ ("group" :> Some(<<GroupItemObj>>)) } :
          /\ vcon = VCon(kw).obj
          /\ call = [op |-> "VCon", kw |-> kw, ok |-> VCon(kw).ok,
                     errs |-> VCon(kw).errs]

SpecEncode == InitEncode /\ [][NextEncode]_vars


\* the tree holds every field of the entity that has a value, and no other
Omits(obj, tree) ==
    /\ DOMAIN tree = {f \in DOMAIN obj : obj[f] # None}
    /\ \A f \in DOMAIN tree : tree[f] # None

\* the list field f of the entity is encoded entry by entry
ListEncoded(obj, tree, f) ==
    obj[f] # None =>
        /\ f \in DOMAIN tree
        /\ Len(tree[f][1]) = Len(obj[f][1])
        /\ \A k \in 1..Len(obj[f][1]) : Omits(obj[f][1][k], tree[f][1][k])

\* null-omission at the top level and inside every nested entity
NullOmission(c, tree) ==
    /\ Omits(c, tree)
    /\ \A f \in {"parties", "dialog", "analysis", "attachments", "group"} :
          ListEncoded(c, tree, f)
    /\ \A f \in {"redacted", "appended"} :
          c[f] # None => f \in DOMAIN tree /\ Omits(c[f][1], tree[f][1])
    /\ \A k \in 1..Len(ListOf(c.parties)) :
          c.parties[1][k].civicaddress # None =>
             Omits(c.parties[1][k].civicaddress[1],
                   tree["parties"][1][k]["civicaddress"][1])
    /\ \A k \in 1..Len(ListOf(c.dialog)) :
          ListEncoded(c.dialog[1][k], tree["dialog"][1][k], "party_history")

\* the value is ISO-8601 text
IsIso(v) == v.tag = "str" /\ v.form = "iso"

\* the timestamp f of the encoded entity, where it has one, is ISO-8601 text
IsoField(tree, f) == f \in DOMAIN tree => IsIso(tree[f][1])

\* the entries of the list field f of a tree
Entries(tree, f) ==
    IF f \in DOMAIN tree THEN {tree[f][1][k] : k \in 1..Len(tree[f][1])} ELSE {}

\* created_at, updated_at and the attachment starts are ISO-8601 text
ContainerTimesIso(tree) ==
    /\ IsoField(tree, "created_at") /\ IsoField(tree, "updated_at")
    /\ \A a \in Entries(tree, "attachments") : IsoField(a, "start")

\* the dialog starts and the party-history times are ISO-8601 text
DialogTimesIso(tree) ==
    \A d \in Entries(tree, "dialog") :
        /\ IsoField(d, "start")
        /\ \A h \in Entries(d, "party_history") : IsoField(h, "time")

\* C21: in the tree to_json encodes, no field with an absent value appears
\* at the top level or inside any nested entity, every field that has a
\* value appears, and every timestamp (created_at, updated_at, dialog
\* start, party-history time, attachment start) is ISO-8601 text
C21_OmissionAndIsoTimestamps ==
    call.op = "to_json" =>
        /\ NullOmission(self, call.doc)
        /\ ContainerTimesIso(call.doc)
        /\ DialogTimesIso(call.doc)


----------------------------------------------------------------------------
(* Claims about validity under growth (Spec).                               *)

\* the sequence s is the beginning of the sequence t
IsPrefix(s, t) == Len(s) <= Len(t) /\ \A k \in 1..Len(s) : t[k] = s[k]

\* every error occurs in after at most as often as in before
NoneAdded(before, after) ==
    \A k \in 1..Len(after) :
        Occurrences(after, after[k]) <= Occurrences(before, after[k])

\* the errors that occur in before more often than in after
Vanished(before, after) ==
    {before[k] : k \in {j \in 1..Len(before) :
                          Occurrences(after, before[j]) < Occurrences(before, before[j])}}

\* the violations of the analyses alone
AnalysisViolationsOf(c) ==
    AllAnalysisErrors(ListOf(c.analysis), 1, Len(ListOf(c.dialog)))

\* C22: no step removes or reorders parties, dialogs or analyses, so the
\* counts never decrease; add_party, add_attachment and add_tag add no
\* entry to the error list of is_valid (a valid container stays valid);
\* add_dialog leaves the violations of every dialog already present as they
\* were and adds none to the analyses; and a violation vanishes only when
\* add_party brings a dialog's party index, or add_dialog an analysis's
\* dialog index, into range
C22_ValidityMonotone ==
    [][ vcon # None /\ vcon' # None =>
          LET c == vcon[1]
              d == vcon'[1]
              parties == Len(ListOf(c.parties))
              dialogs == Len(ListOf(c.dialog))
          IN  /\ \A f \in {"parties", "dialog", "analysis"} :
                    IsPrefix(ListOf(c[f]), ListOf(d[f]))
              /\ Len(ListOf(d.parties)) >= parties
              /\ Len(ListOf(d.dialog)) >= dialogs
              /\ call'.op \in {"add_party", "add_attachment", "add_tag"} =>
                    /\ NoneAdded(Errors(c), Errors(d))
                    /\ is_valid(c).ok => is_valid(d).ok
              /\ call'.op = "add_dialog" =>
                    /\ \A k \in 1..dialogs :
                          DialogErrors(d.dialog[1][k], k - 1, Len(ListOf(d.parties)))
                          = DialogErrors(c.dialog[1][k], k - 1, parties)
                    /\ NoneAdded(AnalysisViolationsOf(c), AnalysisViolationsOf(d))
              /\ \A x \in Vanished(Errors(c), Errors(d)) :
                    \/ /\ call'.op = "add_party"
                       /\ x = MsgPartyIndex(x.at, x.index)
                       /\ ~InRange(x.index, parties)
                       /\ InRange(x.index, Len(ListOf(d.parties)))
                    \/ /\ call'.op = "add_dialog"
                       /\ x = MsgDialogIndex(x.at, x.index)
                       /\ ~InRange(x.index, dialogs)
                       /\ InRange(x.index, Len(ListOf(d.dialog))) ]_vars

\* add_party has just brought the party index of the dialog present into
\* range: the index is that of the party added, and the container is valid
C22_Witness ==
    /\ vcon # None /\ call.op = "add_party"
    /\ Len(ListOf(self.dialog)) = 1
    /\ self.dialog[1][1].parties[1] = PInt(Len(ListOf(self.parties)) - 1)
    /\ is_valid(self).ok

=============================================================================
